---- MODULE Spec2Model ----
(***************************************************************************)
(* Model of the recurring workout scheduling core of discipline_bot:       *)
(* app/scheduler.py (job planner and weekly triggers),                     *)
(* app/services/reminders.py (confirmation prompt, missed sweep),          *)
(* app/services/discipline.py (week parity), app/db/queries.py (stores)    *)
(* and the handlers that write the stores and re-plan.                     *)
(*                                                                         *)
(* Time is local wall-clock time of the configured zone (a fixed-offset    *)
(* zone: the default Europe/Moscow), counted in minutes since Monday       *)
(* 2000-01-03 00:00, the base date _adjust_time itself uses.  Strings are  *)
(* sequences of tokens (one per digit and per separator, one per fixed     *)
(* word), so that startswith, split and the f-strings building job ids and *)
(* callback data are computed, not assumed.                                *)
(***************************************************************************)
EXTENDS Integers, Sequences, FiniteSets, TLC

VARIABLES
    jobs,        \* the scheduler's job store: a set of job records, one per id
    schedules,   \* table workout_schedule: set of <<user_id, weekday, time, week_type>>
    offsets,     \* column users.week_parity_offset: user_id -> "null" or 0 or 1
    handlers,    \* schedule-reconfiguration handlers in flight (one record per task)
    started,     \* number of reconfigurations begun so far
    generation,  \* history: number of schedule_user_jobs calls made so far
    lastPlan,    \* history: the latest schedule_user_jobs call
    now,         \* the clock: minutes since Monday 2000-01-03 00:00 local time
    stopAt,      \* the instant the run of the triggers is observed up to
    fired,       \* ids of the jobs the scheduler has run at the instant now
    tasks,       \* coroutines in flight: missed sweeps, button callbacks, /log commands
    logs,        \* table workout_logs: set of rows, one per autoincrement id
    sent,        \* messages sent to users so far
    presses,     \* number of user actions (button presses, /log commands) so far
    answered,    \* history: the log writes of the user that have completed
    calc         \* a call of a function of services/discipline.py: arguments, result

fireVars == <<fired, tasks, logs, sent, presses, answered>>

vars == <<jobs, schedules, offsets, handlers, started, generation, lastPlan, now, stopAt,
         fireVars, calc>>

\* no call made
NoCalc == [op |-> "none"]

-----------------------------------------------------------------------------
(* Bounds of the model *)

\* reconfigurations begun in one behaviour
MaxReconf == 2

-----------------------------------------------------------------------------
(* Strings *)

Range(seq) == {seq[k] : k \in DOMAIN seq}

Digit == <<"0", "1", "2", "3", "4", "5", "6", "7", "8", "9">>

\* str(n) for n >= 0
RECURSIVE IntStr(_)
IntStr(n) == IF n < 10 THEN <<Digit[n + 1]>>
             ELSE IntStr(n \div 10) \o <<Digit[(n % 10) + 1]>>

\* f"{n:02d}" for 0 <= n <= 99
TwoDigits(n) == <<Digit[(n \div 10) + 1], Digit[(n % 10) + 1]>>

DigitVal(c) == CHOOSE d \in 0..9 : Digit[d + 1] = c

\* int(s) for a string of decimal digits
RECURSIVE StrInt(_)
StrInt(s) == IF Len(s) = 0 THEN 0
             ELSE 10 * StrInt(SubSeq(s, 1, Len(s) - 1)) + DigitVal(s[Len(s)])

\* s.startswith(prefix)
StartsWith(s, prefix) ==
    /\ Len(prefix) <= Len(s)
    /\ SubSeq(s, 1, Len(prefix)) = prefix

\* s.split(":", maxsplit): at most maxsplit cuts, the rest is kept whole
RECURSIVE SplitColon(_, _)
SplitColon(s, maxsplit) ==
    IF maxsplit = 0 \/ ~(\E i \in 1..Len(s) : s[i] = ":") THEN <<s>>
    ELSE LET i == CHOOSE k \in 1..Len(s) :
                      s[k] = ":" /\ \A j \in 1..(k - 1) : s[j] # ":"
         IN  <<SubSeq(s, 1, i - 1)>> \o SplitColon(SubSeq(s, i + 1, Len(s)), maxsplit - 1)

\* f"{hour:02d}:{minute:02d}", the form ScheduleCreate.validate_time stores
TimeStr(hour, minute) == TwoDigits(hour) \o <<":">> \o TwoDigits(minute)

-----------------------------------------------------------------------------
(* Calendar *)

MinutesPerDay == 24 * 60
MinutesPerWeek == 7 * MinutesPerDay

IsLeap(y) == (y % 4 = 0 /\ y % 100 # 0) \/ y % 400 = 0
DaysInYear(y) == IF IsLeap(y) THEN 366 ELSE 365

\* <<year, day of the year (1-based)>> of ordinal o, the 0-based number of days
\* since 1 January of year y
RECURSIVE YearDay(_, _)
YearDay(y, o) == IF o < DaysInYear(y) THEN <<y, o + 1>>
                 ELSE YearDay(y + 1, o - DaysInYear(y))

DayOf(t) == t \div MinutesPerDay
MinuteOfDay(t) == t % MinutesPerDay
\* datetime.weekday(): Monday is 0; day 0 is Monday 2000-01-03
Weekday(t) == DayOf(t) % 7

\* datetime.isocalendar().week: the week number of the Thursday of t's week
IsoWeek(t) ==
    LET thursday == DayOf(t) - (DayOf(t) % 7) + 3
        yd == YearDay(2000, thursday + 2)
    IN  ((yd[2] - 1) \div 7) + 1

\* datetime.replace(hour=h, minute=m, second=0, microsecond=0)
ReplaceTime(t, h, m) == DayOf(t) * MinutesPerDay + h * 60 + m

DaysInMonth(y, m) ==
    IF m = 2 THEN (IF IsLeap(y) THEN 29 ELSE 28)
    ELSE IF m \in {4, 6, 9, 11} THEN 30 ELSE 31

\* <<month, day of the month>> of the day that is d0 days after the first of month m
RECURSIVE MonthDay(_, _, _)
MonthDay(y, m, d0) == IF d0 < DaysInMonth(y, m) THEN <<m, d0 + 1>>
                      ELSE MonthDay(y, m + 1, d0 - DaysInMonth(y, m))

RECURSIVE DaysBeforeYear(_)
DaysBeforeYear(y) == IF y <= 2000 THEN 0 ELSE DaysBeforeYear(y - 1) + DaysInYear(y - 1)

RECURSIVE DaysBeforeMonth(_, _)
DaysBeforeMonth(y, m) == IF m <= 1 THEN 0
                         ELSE DaysBeforeMonth(y, m - 1) + DaysInMonth(y, m - 1)

\* the UTC offset isoformat() prints for the zone
UtcOffset == <<"+", "0", "3", ":", "0", "0">>

\* datetime.isoformat() of an aware datetime with second=0, microsecond=0:
\* YYYY-MM-DDTHH:MM:00+03:00
isoformat(t) ==
    LET yd == YearDay(2000, DayOf(t) + 2)
        md == MonthDay(yd[1], 1, yd[2] - 1)
    IN  IntStr(yd[1]) \o <<"-">> \o TwoDigits(md[1]) \o <<"-">> \o TwoDigits(md[2])
            \o <<"T">> \o TwoDigits(MinuteOfDay(t) \div 60) \o <<":">>
            \o TwoDigits(MinuteOfDay(t) % 60) \o <<":", "0", "0">> \o UtcOffset

\* datetime.fromisoformat() of such a string
fromisoformat(s) ==
    LET year == StrInt(SubSeq(s, 1, 4))
        month == StrInt(SubSeq(s, 6, 7))
        day == StrInt(SubSeq(s, 9, 10))
        hour == StrInt(SubSeq(s, 12, 13))
        minute == StrInt(SubSeq(s, 15, 16))
        ordinal == DaysBeforeYear(year) + DaysBeforeMonth(year, month) + day - 1
    IN  (ordinal - 2) * MinutesPerDay + hour * 60 + minute

-----------------------------------------------------------------------------
(* services/discipline.py *)

\* an offset that is 0 when the answer differs from the ISO parity
OffsetOfOppositeClaim(reference, is_even_week) ==
    LET iso_even == IsoWeek(reference) % 2 = 0
    IN  IF iso_even = is_even_week THEN 1 ELSE 0

compute_week_parity_offset(reference, is_even_week) ==
    LET iso_even == IsoWeek(reference) % 2 = 0
    IN  IF iso_even = is_even_week THEN 0 ELSE 1

\* a filter that lets an odd entry through in the weeks of the even ones
AllowedAsEven(target, offset, week_type) ==
    IF week_type = "any" THEN TRUE
    ELSE LET iso_even == IsoWeek(target) % 2 = 0
             parity == IF iso_even THEN 0 ELSE 1
         IN  (parity + offset) % 2 = 0

is_week_allowed(target, offset, week_type) ==
    IF week_type = "any" THEN TRUE
    ELSE LET iso_even == IsoWeek(target) % 2 = 0
             parity == IF iso_even THEN 0 ELSE 1
             user_even == (parity + offset) % 2 = 0
         IN  IF week_type = "even" THEN user_even
             ELSE IF week_type = "odd" THEN ~user_even
             ELSE TRUE

\* schedule_by_weekday.get(weekday, []): the week types of the entries of a
\* weekday, in the order of the list
RECURSIVE WeekTypesOf(_, _)
WeekTypesOf(schedule, weekday) ==
    IF schedule = <<>> THEN <<>>
    ELSE (IF Head(schedule).weekday = weekday THEN <<Head(schedule).week_type>> ELSE <<>>)
             \o WeekTypesOf(Tail(schedule), weekday)

\* for week_type in week_types: if is_week_allowed(target_dt, ...): total += 1
RECURSIVE CountAllowed(_, _, _)
CountAllowed(week_types, target_dt, week_parity_offset) ==
    IF week_types = <<>> THEN 0
    ELSE (IF is_week_allowed(target_dt, week_parity_offset, Head(week_types)) THEN 1 ELSE 0)
             + CountAllowed(Tail(week_types), target_dt, week_parity_offset)

\* while current <= end_date, with target_dt the midnight of current
RECURSIVE CountFrom(_, _, _, _)
CountFrom(schedule, current, end_date, week_parity_offset) ==
    IF current > end_date THEN 0
    ELSE CountAllowed(WeekTypesOf(schedule, current % 7), current * MinutesPerDay,
                      week_parity_offset)
             + CountFrom(schedule, current + 1, end_date, week_parity_offset)

\* a count that stops before the date of end
CountBeforeEnd(schedule, start, end, week_parity_offset) ==
    IF start > end THEN 0
    ELSE CountFrom(schedule, DayOf(start), DayOf(end) - 1, week_parity_offset)

\* a count without the comparison of start and end
CountOfDates(schedule, start, end, week_parity_offset) ==
    CountFrom(schedule, DayOf(start), DayOf(end), week_parity_offset)

count_scheduled_workouts(schedule, start, end, week_parity_offset) ==
    IF start > end THEN 0
    ELSE CountFrom(schedule, DayOf(start), DayOf(end), week_parity_offset)

is_user_week_even(target, offset) ==
    LET iso_even == IsoWeek(target) % 2 = 0
        parity == IF iso_even THEN 0 ELSE 1
    IN  (parity + offset) % 2 = 0

\* round(x, 2) of the quotient n / d * 100 with d > 0, in hundredths: the
\* nearest hundredth, a tie going to the even one (Python rounds a float
\* half to even, and the ties of the quotients of the model are exact floats)
RoundHundredths(n, d) ==
    LET q == (n * 10000) \div d
        r == (n * 10000) % d
    IN  IF 2 * r > d \/ (2 * r = d /\ q % 2 = 1) THEN q + 1 ELSE q

\* a score cut off after the second decimal
ScoreCutOff(completed, scheduled) ==
    IF scheduled <= 0 THEN 0 ELSE (completed * 10000) \div scheduled

\* the score in hundredths of a percent
calculate_discipline_score(completed, scheduled) ==
    IF scheduled <= 0 THEN 0 ELSE RoundHundredths(completed, scheduled)

-----------------------------------------------------------------------------
(* scheduler.py: the job planner *)

\* an adjustment of the time of day that keeps the weekday
AdjustTimeOfDay(weekday, hour, minute, delta_minutes) ==
    LET adjusted == hour * 60 + minute + delta_minutes
    IN  <<weekday, MinuteOfDay(adjusted) \div 60, MinuteOfDay(adjusted) % 60>>

\* an adjustment that counts the days from the entry's weekday on, past the
\* ends of the week
AdjustPastWeek(weekday, hour, minute, delta_minutes) ==
    LET adjusted == hour * 60 + minute + delta_minutes
    IN  <<weekday + DayOf(adjusted), MinuteOfDay(adjusted) \div 60, MinuteOfDay(adjusted) % 60>>

_adjust_time(weekday, hour, minute, delta_minutes) ==
    LET base == weekday * MinutesPerDay + hour * 60 + minute
        adjusted == base + delta_minutes
    IN  <<Weekday(adjusted), MinuteOfDay(adjusted) \div 60, MinuteOfDay(adjusted) % 60>>

_parse_time(time_str) ==
    LET parts == SplitColon(time_str, Len(time_str))
    IN  <<StrInt(parts[1]), StrInt(parts[2])>>

\* f"user:{user_id}:"
UserPrefix(user_id) == <<"user", ":">> \o IntStr(user_id) \o <<":">>

\* f"{weekday}:{time_str}:{week_type}", the tail of every id of an entry's jobs
EntrySuffix(entry) ==
    IntStr(entry.weekday) \o <<":">> \o entry.time \o <<":", entry.week_type>>

\* a reminder id that leaves the lead out
ReminderIdNoLead(user_id, hours_before, entry) ==
    UserPrefix(user_id) \o <<"reminder", ":">> \o EntrySuffix(entry)

ReminderId(user_id, hours_before, entry) ==
    UserPrefix(user_id) \o <<"reminder", ":">> \o IntStr(hours_before)
        \o <<"h", ":">> \o EntrySuffix(entry)

ConfirmId(user_id, entry) ==
    UserPrefix(user_id) \o <<"confirm", ":">> \o EntrySuffix(entry)

MissedId(user_id, entry) ==
    UserPrefix(user_id) \o <<"missed", ":">> \o EntrySuffix(entry)

\* reminder leads with the last two offsets exchanged
ReminderTimesExchanged ==
    << <<-24 * 60, 24>>, <<-12 * 60, 12>>, <<-6 * 60, 6>>,
       <<-3 * 60, 3>>, <<-60, 2>>, <<-2 * 60, 1>> >>

\* the list reminder_times: (delta_minutes, hours_before)
reminder_times ==
    << <<-24 * 60, 24>>, <<-12 * 60, 12>>, <<-6 * 60, 6>>,
       <<-3 * 60, 3>>, <<-2 * 60, 2>>, <<-60, 1>> >>

\* delay of the missed check after the workout time, in minutes
MissedDelay == 180

\* a field a CronTrigger leaves unrestricted
Unrestricted == 0 - 1

\* CronTrigger(day_of_week=, hour=, minute=) of _adjust_time's result
Cron(slot) ==
    [day |-> Unrestricted, day_of_week |-> slot[1], hour |-> slot[2], minute |-> slot[3]]

\* scheduler.add_job(..., id=..., replace_existing=True): the store holds one
\* job per id, and a job added under a stored id takes its place.  A job is
\* its id, its callback, its cron trigger and its kwargs (a kwarg the callback
\* does not take is 0); entry and gen are history fields: the schedule entry
\* the job was planned for and the schedule_user_jobs call that installed it.
add_job(store, job) == {j \in store : j.id # job.id} \cup {job}

ReminderJob(user_id, entry, offset, gen, k) ==
    LET hm == _parse_time(entry.time)
    IN  [id |-> ReminderId(user_id, reminder_times[k][2], entry),
         func |-> "_reminder_job",
         trigger |-> Cron(_adjust_time(entry.weekday, hm[1], hm[2], reminder_times[k][1])),
         user_id |-> user_id,
         workout_hour |-> 0,
         workout_minute |-> 0,
         week_type |-> entry.week_type,
         week_parity_offset |-> offset,
         hours_before |-> reminder_times[k][2],
         entry |-> entry,
         gen |-> gen]

ConfirmJob(user_id, entry, offset, gen) ==
    LET hm == _parse_time(entry.time)
    IN  [id |-> ConfirmId(user_id, entry),
         func |-> "_confirmation_job",
         trigger |-> Cron(<<entry.weekday, hm[1], hm[2]>>),
         user_id |-> user_id,
         workout_hour |-> hm[1],
         workout_minute |-> hm[2],
         week_type |-> entry.week_type,
         week_parity_offset |-> offset,
         hours_before |-> 0,
         entry |-> entry,
         gen |-> gen]

MissedJob(user_id, entry, offset, gen) ==
    LET hm == _parse_time(entry.time)
    IN  [id |-> MissedId(user_id, entry),
         func |-> "_missed_job",
         trigger |-> Cron(_adjust_time(entry.weekday, hm[1], hm[2], MissedDelay)),
         user_id |-> user_id,
         workout_hour |-> hm[1],
         workout_minute |-> hm[2],
         week_type |-> entry.week_type,
         week_parity_offset |-> offset,
         hours_before |-> 0,
         entry |-> entry,
         gen |-> gen]

\* the inner loop over reminder_times, from its k-th element on
RECURSIVE AddReminders(_, _, _, _, _, _)
AddReminders(store, user_id, entry, offset, gen, k) ==
    IF k > Len(reminder_times) THEN store
    ELSE AddReminders(add_job(store, ReminderJob(user_id, entry, offset, gen, k)),
                      user_id, entry, offset, gen, k + 1)

\* one iteration of "for entry in schedule": six reminders, confirm, missed
AddEntryJobs(store, user_id, entry, offset, gen) ==
    LET s1 == AddReminders(store, user_id, entry, offset, gen, 1)
        s2 == add_job(s1, ConfirmJob(user_id, entry, offset, gen))
    IN  add_job(s2, MissedJob(user_id, entry, offset, gen))

\* "for entry in schedule", from the i-th entry on
RECURSIVE AddScheduleJobs(_, _, _, _, _, _)
AddScheduleJobs(store, user_id, schedule, offset, gen, i) ==
    IF i > Len(schedule) THEN store
    ELSE AddScheduleJobs(AddEntryJobs(store, user_id, schedule[i], offset, gen),
                         user_id, schedule, offset, gen, i + 1)

\* a removal that matches the reminder ids only
RemoveUserReminders(store, user_id) ==
    {j \in store : ~StartsWith(j.id, UserPrefix(user_id) \o <<"reminder", ":">>)}

\* a removal by the prefix f"user:{user_id}", without the colon after the id
RemoveByIdDigits(store, user_id) ==
    {j \in store : ~StartsWith(j.id, <<"user", ":">> \o IntStr(user_id))}

_remove_user_jobs(store, user_id) ==
    {j \in store : ~StartsWith(j.id, UserPrefix(user_id))}

\* a planner that only appends the jobs of the schedule to the store
AppendScheduleJobs(store, user_id, schedule, week_parity_offset, gen) ==
    store \cup (AddScheduleJobs({}, user_id, schedule, week_parity_offset, gen, 1))

\* a planner that installs the new jobs without removing the old ones first
InstallWithoutRemoval(store, user_id, schedule, week_parity_offset, gen) ==
    AddScheduleJobs(store, user_id, schedule, week_parity_offset, gen, 1)

\* schedule_user_jobs is a plain (non-async) function: it runs from its first
\* line to its last without yielding to the event loop.  gen is the number of
\* this call, kept on its jobs as a history field.
\* a planner that returns after the removal when it removed something
RemoveOrInstall(store, user_id, schedule, week_parity_offset, gen) ==
    IF _remove_user_jobs(store, user_id) # store THEN _remove_user_jobs(store, user_id)
    ELSE AddScheduleJobs(store, user_id, schedule, week_parity_offset, gen, 1)

schedule_user_jobs(store, user_id, schedule, week_parity_offset, gen) ==
    AddScheduleJobs(_remove_user_jobs(store, user_id), user_id, schedule,
                    week_parity_offset, gen, 1)

\* schedule_global_jobs: the four process-wide jobs
GlobalJob(name, func, trigger) ==
    [id |-> <<"global", ":", name>>,
     func |-> func,
     trigger |-> trigger,
     user_id |-> 0, workout_hour |-> 0, workout_minute |-> 0,
     week_type |-> "any", week_parity_offset |-> 0, hours_before |-> 0,
     entry |-> [weekday |-> 0, time |-> <<>>, week_type |-> "any"], gen |-> 0]

schedule_global_jobs(store) ==
    add_job(add_job(add_job(add_job(store,
        GlobalJob("weekly-weight", "_weekly_weight_job", Cron(<<0, 8, 0>>))),
        GlobalJob("monthly-report", "_monthly_report_job",
                  [day |-> 1, day_of_week |-> Unrestricted, hour |-> 9, minute |-> 0])),
        GlobalJob("check-pending-payments", "_check_pending_payments_job",
                  [day |-> Unrestricted, day_of_week |-> Unrestricted, hour |-> Unrestricted, minute |-> Unrestricted])),
        GlobalJob("recurring-payments", "_recurring_payments_job",
                  [day |-> Unrestricted, day_of_week |-> Unrestricted, hour |-> 2, minute |-> 0]))

\* the ids schedule_user_jobs derives from a schedule (a set of entries)
EntryIds(user_id, entry) ==
    {ReminderId(user_id, reminder_times[k][2], entry) : k \in 1..Len(reminder_times)}
        \cup {ConfirmId(user_id, entry), MissedId(user_id, entry)}

ScheduleIds(user_id, entries) == UNION {EntryIds(user_id, e) : e \in entries}

\* the ids of the installed jobs that carry the user's prefix
UserJobIds(store, user_id) ==
    {j.id : j \in {x \in store : StartsWith(x.id, UserPrefix(user_id))}}

-----------------------------------------------------------------------------
(* db/queries.py and db/models.py: the schedule store *)

\* str.isdigit() of a non-empty string of characters
IsDigits(str) == Len(str) > 0 /\ \A i \in 1..Len(str) : \E d \in 1..10 : Digit[d] = str[i]

\* the checks shared by parse_time and ScheduleCreate.validate_time: two
\* parts around one colon, both decimal, hour 0..23, minute 0..59
TimeOk(value) ==
    /\ Len(value) > 0
    /\ LET parts == SplitColon(value, Len(value))
       IN  /\ Len(parts) = 2
           /\ IsDigits(parts[1]) /\ IsDigits(parts[2])
           /\ StrInt(parts[1]) <= 23 /\ StrInt(parts[2]) <= 59

\* parse_time(value) of a value that passes: f"{hour:02d}:{minute:02d}"
\* (the text has no blanks around it, so value.strip() is the text)
parse_time(value) ==
    LET parts == SplitColon(value, Len(value))
    IN  TimeStr(StrInt(parts[1]), StrInt(parts[2]))

\* ScheduleCreate(...) raises ValidationError unless weekday is in 0..6
\* (Field(ge=0, le=6)), the time passes validate_time and the week type is
\* one of the three
ScheduleValid(weekday, time, week_type) ==
    /\ weekday >= 0 /\ weekday <= 6
    /\ TimeOk(time)
    /\ week_type \in {"any", "even", "odd"}

\* ScheduleCreate(user_id=, weekday=, time=, week_type=) of valid input:
\* validate_time returns f"{hour:02d}:{minute:02d}"
ScheduleCreate(user_id, weekday, time, week_type) ==
    LET parts == SplitColon(time, Len(time))
    IN  [user_id |-> user_id,
         weekday |-> weekday,
         time |-> TimeStr(StrInt(parts[1]), StrInt(parts[2])),
         week_type |-> week_type]

\* INSERT OR IGNORE under UNIQUE(user_id, weekday, time, week_type)
add_workout_schedule(table, row) == table \cup {row}

\* ORDER BY weekday, time (times are zero-padded, so text order is clock order);
\* rows equal in both are returned in week_type order
WeekTypeRank(week_type) ==
    IF week_type = "any" THEN 0 ELSE IF week_type = "even" THEN 1 ELSE 2

RowBefore(a, b) ==
    LET ta == _parse_time(a.time)
        tb == _parse_time(b.time)
        ka == <<a.weekday, ta[1] * 60 + ta[2], WeekTypeRank(a.week_type)>>
        kb == <<b.weekday, tb[1] * 60 + tb[2], WeekTypeRank(b.week_type)>>
    IN  \/ ka[1] < kb[1]
        \/ ka[1] = kb[1] /\ ka[2] < kb[2]
        \/ ka[1] = kb[1] /\ ka[2] = kb[2] /\ ka[3] <= kb[3]

RECURSIVE OrderRows(_)
OrderRows(rows) ==
    IF rows = {} THEN <<>>
    ELSE LET first == CHOOSE r \in rows : \A q \in rows : RowBefore(r, q)
         IN  <<first>> \o OrderRows(rows \ {first})

\* SELECT weekday, time, week_type FROM workout_schedule WHERE user_id = ?
get_workout_schedule(table, user_id) ==
    OrderRows({[weekday |-> r.weekday, time |-> r.time, week_type |-> r.week_type] :
                   r \in {x \in table : x.user_id = user_id}})

\* the entries stored for a user, as a set
UserEntries(table, user_id) ==
    {[weekday |-> r.weekday, time |-> r.time, week_type |-> r.week_type] :
         r \in {x \in table : x.user_id = user_id}}

-----------------------------------------------------------------------------
(* handlers/schedule.py: the last step of a schedule reconfiguration        *)
(* (schedule_time for "any", schedule_week_parity for "even"/"odd").  Each  *)
(* await is a step of its own: other tasks of the event loop run between.   *)

UserIds == {1, 11}
WeekTypes == {"any", "even", "odd"}
Tasks == {"t1", "t2"}

\* what the users submit in the model: the week-type of the schedule being
\* set, the selected days, the entered time, the parity of the current week
TypeChoices == {"any", "even"}
DayChoices == {<<0>>, <<0, 6>>}
TimeChoices == {TimeStr(22, 0)}
ParityChoices == {"even"}

\* NULL in users.week_parity_offset
NoOffset == -1

NoDayTimes == [d \in {} |-> <<>>]

IdleTask ==
    [pc |-> "idle", user_id |-> 0, week_type |-> "any", days |-> <<>>,
     time_str |-> <<>>, day_times |-> NoDayTimes, offset |-> 0,
     payload |-> <<>>, i |-> 0, schedule |-> <<>>]

\* [f(x) for x in xs if keep-set contains x]
RECURSIVE SelectDays(_, _)
SelectDays(days, keep) ==
    IF days = <<>> THEN <<>>
    ELSE (IF days[1] \in keep THEN <<days[1]>> ELSE <<>>) \o SelectDays(Tail(days), keep)

\* the list "schedules" built after the DELETE
BuildSchedules(user_id, week_type, days, time_str, day_times) ==
    IF DOMAIN day_times # {}
    THEN LET kept == SelectDays(days, DOMAIN day_times)
         IN  [k \in 1..Len(kept) |->
                  ScheduleCreate(user_id, kept[k], day_times[kept[k]], week_type)]
    ELSE [k \in 1..Len(days) |-> ScheduleCreate(user_id, days[k], time_str, week_type)]

\* the handler is entered with complete session data and the text of the
\* time message: schedule_time answers a text that parse_time rejects by
\* asking again, and writes nothing; otherwise the offset is computed before
\* the first await ("any" passes 0)
Entered(t, user_id, week_type, days, text, parity) ==
    /\ handlers[t].pc = "idle"
    /\ started < MaxReconf
    /\ handlers' = IF ~TimeOk(text) THEN handlers
                   ELSE [handlers EXCEPT ![t] =
                            [IdleTask EXCEPT
                                !.pc = "offset", !.user_id = user_id,
                                !.week_type = week_type,
                                !.days = days, !.time_str = parse_time(text),
                                !.offset = IF week_type = "any" THEN 0
                                           ELSE compute_week_parity_offset(
                                                    now, parity = "even")]]
    /\ started' = started + 1
    /\ UNCHANGED <<jobs, schedules, offsets, generation, lastPlan, now, stopAt, fireVars>>

BeginWith(t, user_id, week_type, days, text, parity) ==
    /\ Entered(t, user_id, week_type, days, text, parity)
    /\ UNCHANGED calc

Begin(t) ==
    \E user_id \in UserIds, week_type \in TypeChoices, days \in DayChoices,
       time_str \in TimeChoices, parity \in ParityChoices :
        /\ week_type = "any" => parity = "even"
        /\ BeginWith(t, user_id, week_type, days, time_str, parity)

\* a step that goes on to the DELETE without writing the offset
SkipOffsetWrite(t) ==
    /\ handlers[t].pc = "offset"
    /\ handlers' = [handlers EXCEPT ![t].pc = "delete"]
    /\ UNCHANGED <<calc, offsets, jobs, schedules, started, generation, lastPlan, now,
                   stopAt, fireVars>>

\* await queries.update_week_parity_offset(db, user_id, offset)
UpdateOffset(t) ==
    /\ handlers[t].pc = "offset"
    /\ offsets' = [offsets EXCEPT ![handlers[t].user_id] = handlers[t].offset]
    /\ handlers' = [handlers EXCEPT ![t].pc = "delete"]
    /\ UNCHANGED <<calc, jobs, schedules, started, generation, lastPlan, now, stopAt, fireVars>>

\* await db.execute("DELETE FROM workout_schedule WHERE user_id = ? AND week_type = ?"),
\* then the list of ScheduleCreate objects is built: a ValidationError of any
\* of them ends the handler there
DeleteOld(t) ==
    LET h == handlers[t]
        payload == BuildSchedules(h.user_id, h.week_type, h.days, h.time_str, h.day_times)
    IN  /\ h.pc = "delete"
        /\ schedules' = {r \in schedules :
                             ~(r.user_id = h.user_id /\ r.week_type = h.week_type)}
        /\ handlers' = IF \E d \in Range(h.days) :
                              IF DOMAIN h.day_times # {}
                              THEN /\ d \in DOMAIN h.day_times
                                   /\ ~ScheduleValid(d, h.day_times[d], h.week_type)
                              ELSE ~ScheduleValid(d, h.time_str, h.week_type)
                       THEN [handlers EXCEPT ![t] = IdleTask]
                       ELSE [handlers EXCEPT
                                ![t].payload = payload,
                                ![t].i = 1,
                                ![t].pc = IF Len(payload) = 0 THEN "read" ELSE "insert"]
        /\ UNCHANGED <<calc, jobs, offsets, started, generation, lastPlan, now, stopAt, fireVars>>

\* for entry in schedules: await queries.add_workout_schedule(db, entry)
InsertEntry(t) ==
    LET h == handlers[t]
    IN  /\ h.pc = "insert"
        /\ schedules' = add_workout_schedule(schedules, h.payload[h.i])
        /\ handlers' = [handlers EXCEPT
               ![t].i = h.i + 1,
               ![t].pc = IF h.i = Len(h.payload) THEN "read" ELSE "insert"]
        /\ UNCHANGED <<calc, jobs, offsets, started, generation, lastPlan, now, stopAt, fireVars>>

\* schedule = await queries.get_workout_schedule(db, user_id)
ReadSchedule(t) ==
    /\ handlers[t].pc = "read"
    /\ handlers' = [handlers EXCEPT
           ![t].schedule = get_workout_schedule(schedules, handlers[t].user_id),
           ![t].pc = "replan"]
    /\ UNCHANGED <<calc, jobs, schedules, offsets, started, generation, lastPlan, now, stopAt, fireVars>>

\* schedule_user_jobs(scheduler, db, bot, user_id, tg_id, schedule, offset, tz)
ReplanJobs(t) ==
    LET h == handlers[t]
    IN  /\ h.pc = "replan"
        /\ generation' = generation + 1
        /\ jobs' = schedule_user_jobs(jobs, h.user_id, h.schedule, h.offset, generation + 1)
        /\ lastPlan' = [user_id |-> h.user_id,
                        schedule |-> h.schedule,
                        gen |-> generation + 1,
                        removed |-> Cardinality(jobs \ _remove_user_jobs(jobs, h.user_id)),
                        repeat |-> /\ lastPlan.gen > 0
                                   /\ lastPlan.user_id = h.user_id
                                   /\ lastPlan.schedule = h.schedule]
        /\ handlers' = [handlers EXCEPT ![t] = IdleTask]
        /\ UNCHANGED <<schedules, offsets, started, now, stopAt, fireVars>>

\* the planner call, then state.clear() and the answer
Replan(t) == ReplanJobs(t) /\ UNCHANGED calc

\* lastPlan before any call.  removed is the count _remove_user_jobs returned;
\* repeat says that the call before it was for the same user and schedule.
NoPlan == [user_id |-> 0, schedule |-> <<>>, gen |-> 0, removed |-> 0, repeat |-> FALSE]

\* Monday 2026-11-02 10:00 (ISO week 45)
StartOfPlanning == 9800 * MinutesPerDay + 10 * 60

Init ==
    /\ jobs = schedule_global_jobs({})
    /\ schedules = {}
    /\ offsets = [u \in UserIds |-> NoOffset]
    /\ handlers = [t \in Tasks |-> IdleTask]
    /\ started = 0
    /\ generation = 0
    /\ lastPlan = NoPlan
    /\ now = StartOfPlanning
    /\ stopAt = StartOfPlanning
    /\ fired = {}
    /\ tasks = {}
    /\ logs = {}
    /\ sent = {}
    /\ presses = 0
    /\ answered = {}
    /\ calc = NoCalc

Next ==
    \E t \in Tasks :
        \/ Begin(t)
        \/ UpdateOffset(t)
        \/ DeleteOld(t)
        \/ InsertEntry(t)
        \/ ReadSchedule(t)
        \/ Replan(t)

Spec == Init /\ [][Next]_vars

\* Reconfigurations of a user who already has a schedule.  The store is the
\* one a restart finds: the first user has an entry for even weeks and an
\* entry for every week, the other user one entry, and load_all_schedules
\* has planned both with their stored offsets.
\* the user who has a stored schedule at startup: the first of the users
FireUser == CHOOSE u \in UserIds : \A v \in UserIds : u <= v

EditEven == ScheduleCreate(FireUser, 0, TimeStr(21, 0), "even")

EditAny == ScheduleCreate(FireUser, 6, TimeStr(21, 0), "any")

OtherUser == CHOOSE u \in UserIds : u # FireUser

OtherAny == ScheduleCreate(OtherUser, 0, TimeStr(21, 0), "any")

\* what the handlers can be given: schedule_days takes the weekday from the
\* callback data with int() and no range check, and the time is any text
EditDays == {<<0>>, <<6>>, <<0, 7>>}

EditTimes == {TimeStr(22, 0), <<"2", "5", ":", "0", "0">>}

EditParities == {"even", "odd"}

StoredAtRestart ==
    /\ schedules = {EditEven, EditAny, OtherAny}
    /\ \E offset \in {0, 1} :
          /\ offsets = [u \in UserIds |-> IF u = FireUser THEN offset ELSE 0]
          /\ jobs = schedule_user_jobs(
                        schedule_user_jobs(schedule_global_jobs({}), FireUser,
                            get_workout_schedule(schedules, FireUser), offset, 1),
                        OtherUser, get_workout_schedule(schedules, OtherUser), 0, 2)
    /\ handlers = [t \in Tasks |-> IdleTask]
    /\ started = 0
    /\ generation = 2
    /\ lastPlan = [user_id |-> OtherUser,
                   schedule |-> get_workout_schedule(schedules, OtherUser),
                   gen |-> 2, removed |-> 0, repeat |-> FALSE]
    /\ now = StartOfPlanning
    /\ stopAt = StartOfPlanning
    /\ fired = {}
    /\ tasks = {}
    /\ logs = {}
    /\ sent = {}
    /\ presses = 0
    /\ answered = {}

InitEdit == StoredAtRestart /\ calc = NoCalc

BeginEdit(t) ==
    \E week_type \in TypeChoices, days \in EditDays, text \in EditTimes,
       parity \in EditParities :
        /\ week_type = "any" => parity = "even"
        /\ BeginWith(t, FireUser, week_type, days, text, parity)

NextEdit ==
    \E t \in Tasks :
        \/ BeginEdit(t)
        \/ UpdateOffset(t)
        \/ DeleteOld(t)
        \/ InsertEntry(t)
        \/ ReadSchedule(t)
        \/ Replan(t)

SpecEdit == InitEdit /\ [][NextEdit]_vars

-----------------------------------------------------------------------------
(* Reconfigurations of the first user one after the other, each completed   *)
(* before the next is begun, on the store a restart finds.                  *)

SeqTask == CHOOSE t \in Tasks : TRUE

SeqTypes == {"any", "even", "odd"}

\* the time as typed: "22:00" and "7:30"
SeqTimes == {TimeStr(22, 0), <<"7", ":", "3", "0">>}

\* what a reconfiguration was given
Submitted(week_type, days, text) == [week_type |-> week_type, days |-> days, text |-> text]

NoSubmitted == Submitted("none", <<>>, <<>>)

InitSeq ==
    /\ StoredAtRestart
    /\ calc = [op |-> "seq", input |-> NoSubmitted, earlier |-> NoSubmitted,
               entries |-> schedules, ids |-> UserJobIds(jobs, FireUser)]

\* the handler is entered when no other is in flight; earlier is what the
\* reconfiguration before it was given, entries and ids are the stored entries
\* and the job ids of the user it finds, those the one before it left
BeginSeq ==
    /\ \A t \in Tasks : handlers[t].pc = "idle"
    /\ \E week_type \in SeqTypes, days \in DayChoices, text \in SeqTimes,
          parity \in EditParities :
          /\ week_type = "any" => parity = "even"
          /\ Entered(SeqTask, FireUser, week_type, days, text, parity)
          /\ calc' = [calc EXCEPT
                         !.earlier = calc.input,
                         !.input = Submitted(week_type, days, text),
                         !.entries = schedules,
                         !.ids = UserJobIds(jobs, FireUser)]

NextSeq ==
    \/ BeginSeq
    \/ UpdateOffset(SeqTask)
    \/ DeleteOld(SeqTask)
    \/ InsertEntry(SeqTask)
    \/ ReadSchedule(SeqTask)
    \/ Replan(SeqTask)

SpecSeq == InitSeq /\ [][NextSeq]_vars

-----------------------------------------------------------------------------
(* handlers/schedule.py: the steps of the schedule wizard after the days    *)
(* are chosen, for one session of the first user.  The session is the FSM   *)
(* state and the data of the FSM context; user_id 0 is a missing user_id.   *)
(* A part of the data may be lost before a step runs.                       *)

Session(state, user_id, week_type, days) ==
    [op |-> "wizard", state |-> state, user_id |-> user_id, week_type |-> week_type,
     days |-> days, time_str |-> <<>>, day_times |-> NoDayTimes, current_day_index |-> 0,
     lost |-> "none", handled |-> FALSE, reset |-> FALSE,
     schedules |-> {}, offsets |-> <<>>, jobs |-> {}]

InitWizard ==
    /\ StoredAtRestart
    /\ \E week_type \in TypeChoices, days \in DayChoices :
          calc = [Session("waiting_time_mode", FireUser, week_type, days) EXCEPT
                     !.schedules = schedules, !.offsets = offsets, !.jobs = jobs]

WaitingStates == {"waiting_time_mode", "waiting_time", "waiting_day_time",
                  "waiting_week_parity"}

\* a part of the session data is lost: the user_id, the selected days, or
\* (before the parity step) the single time and the per-day times
LoseData ==
    /\ calc.lost = "none"
    /\ calc.state \in WaitingStates
    /\ \/ calc' = [calc EXCEPT !.lost = "user_id", !.user_id = 0]
       \/ calc' = [calc EXCEPT !.lost = "days", !.days = <<>>]
       \/ /\ calc.state = "waiting_week_parity"
          /\ calc' = [calc EXCEPT !.lost = "times", !.time_str = <<>>,
                                  !.day_times = NoDayTimes]
    /\ UNCHANGED <<jobs, schedules, offsets, handlers, started, generation, lastPlan,
                   now, stopAt, fireVars>>

\* await state.clear(): the state and the data of the session are dropped
Cleared(c) ==
    [c EXCEPT !.state = "cleared", !.user_id = 0, !.week_type = "any", !.days = <<>>,
              !.time_str = <<>>, !.day_times = NoDayTimes, !.current_day_index = 0]

\* await state.clear(); await message.answer("Сессия сброшена ...")
SessionReset(c) == [Cleared(c) EXCEPT !.reset = TRUE, !.handled = c.lost # "none"]

\* a step of the wizard that goes on to write: the handler task is entered
\* with the data of the session; day_times is the dict the branch builds its
\* entries from (schedule_time builds them from time_str alone)
Saving(c, day_times, offset) ==
    /\ handlers' = [handlers EXCEPT ![SeqTask] =
           [IdleTask EXCEPT !.pc = "offset", !.user_id = c.user_id,
                            !.week_type = c.week_type, !.days = c.days,
                            !.time_str = c.time_str, !.day_times = day_times,
                            !.offset = offset]]
    /\ started' = started + 1
    /\ calc' = [c EXCEPT !.state = "saving", !.handled = c.lost # "none"]

\* schedule_time_mode: one time for all days, or a time per day; the first
\* day is then looked up with sorted(days)[0], after the state is set, and
\* this is the only use the step makes of the session data
TimeMode(time_mode) ==
    /\ calc.state = "waiting_time_mode"
    /\ calc' = IF time_mode = "single"
               THEN [calc EXCEPT !.state = "waiting_time"]
               ELSE [calc EXCEPT !.state = "waiting_day_time", !.day_times = NoDayTimes,
                                 !.current_day_index = 0, !.handled = calc.lost = "days"]
    /\ UNCHANGED <<jobs, schedules, offsets, handlers, started, generation, lastPlan,
                   now, stopAt, fireVars>>

\* a schedule_time that writes offset 0 before it asks for the parity
TimeTextWritesOffset(text) ==
    /\ calc.state = "waiting_time"
    /\ calc.user_id # 0 /\ TimeOk(text) /\ calc.week_type # "any"
    /\ calc' = [calc EXCEPT !.time_str = parse_time(text),
                            !.state = "waiting_week_parity"]
    /\ offsets' = [offsets EXCEPT ![calc.user_id] = 0]
    /\ UNCHANGED <<handlers, started, jobs, schedules, generation, lastPlan, now,
                   stopAt, fireVars>>

\* schedule_time, up to its first write; the days are used by the 'any'
\* branch only, which saves
TimeText(text) ==
    /\ calc.state = "waiting_time"
    /\ IF calc.user_id = 0
       THEN /\ calc' = SessionReset(calc)
            /\ UNCHANGED <<handlers, started>>
       ELSE IF ~TimeOk(text)
       THEN UNCHANGED <<calc, handlers, started>>
       ELSE IF calc.week_type = "any"
       THEN Saving([calc EXCEPT !.time_str = parse_time(text)], NoDayTimes, 0)
       ELSE /\ calc' = [calc EXCEPT !.time_str = parse_time(text),
                                    !.state = "waiting_week_parity"]
            /\ UNCHANGED <<handlers, started>>
    /\ UNCHANGED <<jobs, schedules, offsets, generation, lastPlan, now, stopAt, fireVars>>

\* schedule_day_time, up to its first write: the time of the current day is
\* stored, and after the last day the schedule is saved ('any') or the parity
\* is asked
DayTimeText(text) ==
    /\ calc.state = "waiting_day_time"
    /\ IF calc.user_id = 0 \/ calc.days = <<>>
       THEN /\ calc' = SessionReset(calc)
            /\ UNCHANGED <<handlers, started>>
       ELSE IF ~TimeOk(text)
       THEN UNCHANGED <<calc, handlers, started>>
       ELSE LET current_day == calc.days[calc.current_day_index + 1]
                day_times == [d \in DOMAIN calc.day_times \cup {current_day} |->
                                 IF d = current_day THEN parse_time(text)
                                 ELSE calc.day_times[d]]
                next_index == calc.current_day_index + 1
            IN  IF next_index < Len(calc.days)
                THEN /\ calc' = [calc EXCEPT !.day_times = day_times,
                                             !.current_day_index = next_index]
                     /\ UNCHANGED <<handlers, started>>
                ELSE IF calc.week_type = "any"
                THEN Saving([calc EXCEPT !.day_times = day_times,
                                         !.time_str = <<"multiple">>], day_times, 0)
                ELSE /\ calc' = [calc EXCEPT !.day_times = day_times,
                                             !.time_str = <<"multiple">>,
                                             !.state = "waiting_week_parity"]
                     /\ UNCHANGED <<handlers, started>>
    /\ UNCHANGED <<jobs, schedules, offsets, generation, lastPlan, now, stopAt, fireVars>>

\* schedule_week_parity, up to its first write
ParityAnswer(parity) ==
    /\ calc.state = "waiting_week_parity"
    /\ IF calc.user_id = 0 \/ calc.days = <<>>
       THEN /\ calc' = SessionReset(calc)
            /\ UNCHANGED <<handlers, started>>
       ELSE IF calc.time_str = <<>> /\ DOMAIN calc.day_times = {}
       THEN /\ calc' = SessionReset(calc)
            /\ UNCHANGED <<handlers, started>>
       ELSE Saving(calc, calc.day_times, compute_week_parity_offset(now, parity = "even"))
    /\ UNCHANGED <<jobs, schedules, offsets, generation, lastPlan, now, stopAt, fireVars>>

NextWizard ==
    \/ LoseData
    \/ \E time_mode \in {"single", "multiple"} : TimeMode(time_mode)
    \/ \E text \in EditTimes : TimeText(text)
    \/ \E text \in EditTimes : DayTimeText(text)
    \/ \E parity \in EditParities : ParityAnswer(parity)
    \/ UpdateOffset(SeqTask)
    \/ DeleteOld(SeqTask)
    \/ InsertEntry(SeqTask)
    \/ ReadSchedule(SeqTask)
    \/ Replan(SeqTask)

SpecWizard == InitWizard /\ [][NextWizard]_vars

-----------------------------------------------------------------------------
(* handlers/schedule.py: runs of the schedule wizard of the first user from *)
(* the /schedule command on, a run possibly left at any step and begun      *)
(* again with /schedule.  The FSM context is in MemoryStorage: the command  *)
(* updates user_id and leaves the rest of the data, state.clear() drops it. *)

MaxRuns == 2

\* the weekday buttons pressed in the model
WizardDays == {0, 6}

\* sorted(set(selected_days))
RECURSIVE SortDays(_)
SortDays(S) ==
    IF S = {} THEN <<>>
    ELSE LET first == CHOOSE x \in S : \A y \in S : x <= y
         IN  <<first>> \o SortDays(S \ {first})

InitRestart ==
    /\ StoredAtRestart
    /\ calc = [op |-> "restart", state |-> "cleared", user_id |-> 0, week_type |-> "any",
               days |-> <<>>, time_str |-> <<>>, day_times |-> NoDayTimes,
               current_day_index |-> 0, lost |-> "none", handled |-> FALSE,
               reset |-> FALSE, schedules |-> schedules, offsets |-> offsets,
               jobs |-> jobs, runs |-> 0]

\* schedule_command: await state.update_data(user_id=int(user["id"]));
\* await state.set_state(ScheduleStates.waiting_mode).  The command is
\* accepted in any state; schedules, offsets and jobs of the session are
\* the stores as the command finds them.
schedule_command ==
    /\ calc.state # "saving"
    /\ calc.runs < MaxRuns
    /\ calc' = [calc EXCEPT !.user_id = FireUser, !.state = "waiting_mode",
                            !.runs = calc.runs + 1, !.schedules = schedules,
                            !.offsets = offsets, !.jobs = jobs]
    /\ UNCHANGED <<jobs, schedules, offsets, handlers, started, generation, lastPlan,
                   now, stopAt, fireVars>>

\* schedule_mode: "view" shows the schedule and clears the session, a week
\* type is stored with an empty selection of days, any other value is refused
schedule_mode(mode) ==
    /\ calc.state = "waiting_mode"
    /\ calc' = IF mode = "view" THEN Cleared(calc)
               ELSE IF mode \in {"even", "odd", "any"}
               THEN [calc EXCEPT !.week_type = mode, !.days = <<>>,
                                 !.state = "waiting_days"]
               ELSE calc
    /\ UNCHANGED <<jobs, schedules, offsets, handlers, started, generation, lastPlan,
                   now, stopAt, fireVars>>

\* schedule_days: a day button toggles the day, "reset" empties the
\* selection, "done" goes on unless no day is selected
schedule_days(action, day) ==
    /\ calc.state = "waiting_days"
    /\ calc' = IF action = "toggle"
               THEN [calc EXCEPT !.days =
                        IF day \in Range(calc.days)
                        THEN SortDays(Range(calc.days) \ {day})
                        ELSE SortDays(Range(calc.days) \cup {day})]
               ELSE IF action = "reset" THEN [calc EXCEPT !.days = <<>>]
               ELSE IF calc.days = <<>> THEN calc
               ELSE [calc EXCEPT !.state = "waiting_time_mode"]
    /\ UNCHANGED <<jobs, schedules, offsets, handlers, started, generation, lastPlan,
                   now, stopAt, fireVars>>

\* the end of the handler that saves: the planner call, then state.clear()
FinishWizard ==
    /\ ReplanJobs(SeqTask)
    /\ calc' = Cleared(calc)

NextRestart ==
    \/ schedule_command
    \/ \E mode \in {"view", "even", "any", "all"} : schedule_mode(mode)
    \/ \E action \in {"toggle", "reset", "done"}, day \in WizardDays :
          schedule_days(action, day)
    \/ \E time_mode \in {"single", "multiple"} : TimeMode(time_mode)
    \/ \E text \in SeqTimes \cup EditTimes : TimeText(text)
    \/ \E text \in SeqTimes \cup EditTimes : DayTimeText(text)
    \/ \E parity \in EditParities : ParityAnswer(parity)
    \/ UpdateOffset(SeqTask)
    \/ DeleteOld(SeqTask)
    \/ InsertEntry(SeqTask)
    \/ ReadSchedule(SeqTask)
    \/ FinishWizard

SpecRestart == InitRestart /\ [][NextRestart]_vars

-----------------------------------------------------------------------------
(* The week parity of a user over the weeks: the user says at a reference   *)
(* moment which week it is (handlers/schedule.py schedule_week_parity), the *)
(* offset is computed from the answer, and the profile shows the parity of   *)
(* the current week from then on (handlers/profile.py).                      *)

\* the reference moments: 10:00 of one of ParityDays days from Monday
\* 2026-12-07 (ISO week 50; 2026 has a week 53); the weeks followed after it
ParityDays == 35
ParityWeeks == 5
StartOfParity == 9835 * MinutesPerDay + 10 * 60

InitParity ==
    /\ \E d \in 0..(ParityDays - 1), is_even_week \in BOOLEAN :
          calc = [op |-> "asked",
                  reference |-> StartOfParity + d * MinutesPerDay,
                  is_even_week |-> is_even_week,
                  offset |-> NoOffset,
                  target |-> StartOfParity + d * MinutesPerDay,
                  weeks |-> 0,
                  user_even |-> FALSE, was_even |-> FALSE,
                  allowed_even |-> FALSE, allowed_odd |-> FALSE]
    /\ jobs = schedule_global_jobs({})
    /\ schedules = {}
    /\ offsets = [u \in UserIds |-> NoOffset]
    /\ handlers = [t \in Tasks |-> IdleTask]
    /\ started = 0
    /\ generation = 0
    /\ lastPlan = NoPlan
    /\ now = StartOfParity
    /\ stopAt = StartOfParity
    /\ fired = {}
    /\ tasks = {}
    /\ logs = {}
    /\ sent = {}
    /\ presses = 0
    /\ answered = {}

\* offset = compute_week_parity_offset(datetime.now(tz), is_even_week)
ComputeOffset ==
    /\ calc.op = "asked"
    /\ calc' = [calc EXCEPT
                   !.op = "offset",
                   !.offset = compute_week_parity_offset(calc.reference, calc.is_even_week)]
    /\ UNCHANGED <<jobs, schedules, offsets, handlers, started, generation, lastPlan,
                   now, stopAt, fireVars>>

\* the parity of the week of a moment under the stored offset, and whether
\* an even and an odd entry apply in it
WeekOf(c, target) ==
    [c EXCEPT !.op = "shown",
              !.target = target,
              !.was_even = c.user_even,
              !.user_even = is_user_week_even(target, c.offset),
              !.allowed_even = is_week_allowed(target, c.offset, "even"),
              !.allowed_odd = is_week_allowed(target, c.offset, "odd")]

\* even_now = is_user_week_even(datetime.now(tz), int(week_parity_offset))
ShowWeek ==
    /\ calc.op = "offset"
    /\ calc' = WeekOf(calc, calc.target)
    /\ UNCHANGED <<jobs, schedules, offsets, handlers, started, generation, lastPlan,
                   now, stopAt, fireVars>>

\* the same, seven days later
WeekLater ==
    /\ calc.op = "shown"
    /\ calc.weeks < ParityWeeks
    /\ calc' = [WeekOf(calc, calc.target + MinutesPerWeek) EXCEPT !.weeks = calc.weeks + 1]
    /\ UNCHANGED <<jobs, schedules, offsets, handlers, started, generation, lastPlan,
                   now, stopAt, fireVars>>

NextParity == ComputeOffset \/ ShowWeek \/ WeekLater

SpecParity == InitParity /\ [][NextParity]_vars

-----------------------------------------------------------------------------
(* The count of scheduled workouts of a report (handlers/reports.py,        *)
(* services/analytics.py): the stored schedule of the user is counted over  *)
(* a range of moments, and over the ranges a day wider.                     *)

\* the stored entries: at most MaxCounted of CountUniverse
MaxCounted == 2
CountUniverse ==
    {[weekday |-> 0, time |-> TimeStr(19, 0), week_type |-> "any"],
     [weekday |-> 2, time |-> TimeStr(7, 0), week_type |-> "even"],
     [weekday |-> 2, time |-> TimeStr(7, 0), week_type |-> "odd"],
     [weekday |-> 6, time |-> TimeStr(7, 0), week_type |-> "odd"]}

\* start is 10:00 of one of CountDays days from Monday 2026-12-28 (ISO week
\* 53), end an hour before or after it; a range spans at most MaxSpan days
\* more than the first
CountDays == 7
MaxSpan == 13
StartOfCount == 9856 * MinutesPerDay + 10 * 60

InitCount ==
    /\ \E entries \in SUBSET CountUniverse, d \in 0..(CountDays - 1),
          week_parity_offset \in {0, 1}, lag \in {0 - 60, 60} :
          /\ entries # {}
          /\ Cardinality(entries) <= MaxCounted
          /\ schedules = {ScheduleCreate(FireUser, e.weekday, e.time, e.week_type) :
                              e \in entries}
          /\ offsets = [u \in UserIds |-> IF u = FireUser THEN week_parity_offset
                                          ELSE NoOffset]
          /\ calc = [op |-> "asked",
                     schedule |-> get_workout_schedule(schedules, FireUser),
                     start |-> StartOfCount + d * MinutesPerDay,
                     end |-> StartOfCount + d * MinutesPerDay + lag,
                     week_parity_offset |-> week_parity_offset,
                     scheduled |-> 0, narrower |-> 0]
    /\ jobs = schedule_global_jobs({})
    /\ handlers = [t \in Tasks |-> IdleTask]
    /\ started = 0
    /\ generation = 0
    /\ lastPlan = NoPlan
    /\ now = StartOfCount
    /\ stopAt = StartOfCount
    /\ fired = {}
    /\ tasks = {}
    /\ logs = {}
    /\ sent = {}
    /\ presses = 0
    /\ answered = {}

\* scheduled = count_scheduled_workouts(schedule, start, end, week_parity_offset)
Counted(c, start, end) ==
    [c EXCEPT !.op = "counted",
              !.start = start,
              !.end = end,
              !.narrower = c.scheduled,
              !.scheduled = count_scheduled_workouts(c.schedule, start, end,
                                                     c.week_parity_offset)]

CountRange ==
    /\ calc.op = "asked"
    /\ calc' = Counted(calc, calc.start, calc.end)
    /\ UNCHANGED <<jobs, schedules, offsets, handlers, started, generation, lastPlan,
                   now, stopAt, fireVars>>

\* the count over the range that ends a day later
CountLaterEnd ==
    /\ calc.op = "counted"
    /\ DayOf(calc.end) - DayOf(calc.start) < MaxSpan
    /\ calc' = Counted(calc, calc.start, calc.end + MinutesPerDay)
    /\ UNCHANGED <<jobs, schedules, offsets, handlers, started, generation, lastPlan,
                   now, stopAt, fireVars>>

\* the count over the range that starts a day earlier
CountEarlierStart ==
    /\ calc.op = "counted"
    /\ DayOf(calc.end) - DayOf(calc.start) < MaxSpan
    /\ calc' = Counted(calc, calc.start - MinutesPerDay, calc.end)
    /\ UNCHANGED <<jobs, schedules, offsets, handlers, started, generation, lastPlan,
                   now, stopAt, fireVars>>

NextCount == CountRange \/ CountLaterEnd \/ CountEarlierStart

SpecCount == InitCount /\ [][NextCount]_vars

-----------------------------------------------------------------------------
(* The plan of one stored entry at startup (scheduler.py load_all_schedules): *)
(* the entry is any weekday at any hour, and the planner installs its jobs.   *)

EntryHours == 0..23

EntryMinutes == {0, 30, 59}

InitTrigger ==
    /\ \E weekday \in 0..6, hour \in EntryHours, minute \in EntryMinutes :
          schedules = {ScheduleCreate(FireUser, weekday, TimeStr(hour, minute), "any")}
    /\ offsets = [u \in UserIds |-> IF u = FireUser THEN 0 ELSE NoOffset]
    /\ jobs = schedule_global_jobs({})
    /\ handlers = [t \in Tasks |-> IdleTask]
    /\ started = 0
    /\ generation = 0
    /\ lastPlan = NoPlan
    /\ now = StartOfPlanning
    /\ stopAt = StartOfPlanning
    /\ fired = {}
    /\ tasks = {}
    /\ logs = {}
    /\ sent = {}
    /\ presses = 0
    /\ answered = {}
    /\ calc = NoCalc

\* schedule_user_jobs(scheduler, db, bot, user_id, tg_id, schedule,
\* week_parity_offset, tz) of the stored schedule of the user
LoadSchedule ==
    /\ generation = 0
    /\ generation' = 1
    /\ jobs' = schedule_user_jobs(jobs, FireUser, get_workout_schedule(schedules, FireUser),
                                  offsets[FireUser], 1)
    /\ lastPlan' = [NoPlan EXCEPT !.user_id = FireUser, !.gen = 1,
                        !.schedule = get_workout_schedule(schedules, FireUser)]
    /\ UNCHANGED <<calc, schedules, offsets, handlers, started, now, stopAt, fireVars>>

NextTrigger == LoadSchedule

SpecTrigger == InitTrigger /\ [][NextTrigger]_vars

-----------------------------------------------------------------------------
(* db/queries.py: the workout log.  Table workout_logs has an autoincrement *)
(* id and no uniqueness constraint on (user_id, date).                      *)

\* duration and notes of a log written without them
None == 0 - 1

LogRows(table, user_id, date) == {r \in table : r.user_id = user_id /\ r.date = date}

\* a lookup that sees the rows with status 'missed' only
MissedLogExists(table, user_id, workout_at) ==
    \E r \in LogRows(table, user_id, isoformat(workout_at)) : r.status = "missed"

\* a lookup that finds any row of the user of the day of the workout
LogExistsThatDay(table, user_id, workout_at) ==
    \E r \in table : /\ r.user_id = user_id
                     /\ DayOf(fromisoformat(r.date)) = DayOf(workout_at)

\* SELECT 1 FROM workout_logs WHERE user_id = ? AND date = ?
workout_log_exists(table, user_id, workout_at) ==
    LogRows(table, user_id, isoformat(workout_at)) # {}

\* the SELECT of upsert_workout_log: the id of the first matching row, 0 for none
SelectLogId(table, user_id, date) ==
    IF LogRows(table, user_id, date) = {} THEN 0
    ELSE CHOOSE i \in {r.id : r \in LogRows(table, user_id, date)} :
             \A r \in LogRows(table, user_id, date) : i <= r.id

\* UPDATE workout_logs SET status = ?, duration = ?, notes = ? WHERE id = ?
UpdateLog(table, id, status) ==
    {IF r.id = id THEN [r EXCEPT !.status = status, !.duration = None, !.notes = <<>>]
     ELSE r : r \in table}

\* INSERT INTO workout_logs (user_id, date, status, duration, notes)
InsertLog(table, user_id, date, status) ==
    table \cup {[id |-> Cardinality(table) + 1, user_id |-> user_id, date |-> date,
                 status |-> status, duration |-> None, notes |-> <<>>]}

\* the write of upsert_workout_log, given what its SELECT returned
WriteLog(table, existing, user_id, date, status) ==
    IF existing # 0 THEN UpdateLog(table, existing, status)
    ELSE InsertLog(table, user_id, date, status)

\* WorkoutLogCreate(user_id=, date=, status=, duration=, notes=); the date is
\* kept as its isoformat(), the form it is stored and compared in
WorkoutLogCreate(user_id, date, status, duration, notes) ==
    [user_id |-> user_id, date |-> date, status |-> status,
     duration |-> duration, notes |-> notes]

\* UPDATE workout_logs SET status = ?, duration = ?, notes = ? WHERE id = ?
UpdateLogFields(table, id, log) ==
    {IF r.id = id
     THEN [r EXCEPT !.status = log.status, !.duration = log.duration, !.notes = log.notes]
     ELSE r : r \in table}

\* INSERT INTO workout_logs (user_id, date, status, duration, notes)
InsertLogRow(table, log) ==
    table \cup {[id |-> Cardinality(table) + 1, user_id |-> log.user_id,
                 date |-> log.date, status |-> log.status,
                 duration |-> log.duration, notes |-> log.notes]}

\* a write that inserts whatever the SELECT returned
AppendLogRow(table, existing, log) == InsertLogRow(table, log)

\* if existing: UPDATE ...; return; INSERT ...
WriteLogRow(table, existing, log) ==
    IF existing # 0 THEN UpdateLogFields(table, existing, log)
    ELSE InsertLogRow(table, log)

-----------------------------------------------------------------------------
(* Calls of upsert_workout_log one after the other (the /log command of     *)
(* handlers/workouts.py passes a duration and notes), each finished before   *)
(* the next begins, on a log that is empty at first.                         *)

MaxCalls == 3

\* the moments logged: 10:00 of two days, as isoformat() gives them
LogDates == {isoformat(StartOfPlanning), isoformat(StartOfPlanning + MinutesPerDay)}

\* status, duration and notes of a call; None is a missing duration, the
\* empty string stands for missing notes
LogFields == {<<"done", 45, <<"n">> >>, <<"missed", None, <<>> >>, <<"done", None, <<>> >>}

NoCall == WorkoutLogCreate(0, <<>>, "none", None, <<>>)

InitUpsert ==
    /\ logs = {}
    /\ calc = [op |-> "upsert", pc |-> "idle", log |-> NoCall, existing |-> 0,
               calls |-> 0, earlier |-> NoCall, before |-> {}]
    /\ jobs = schedule_global_jobs({})
    /\ schedules = {}
    /\ offsets = [u \in UserIds |-> NoOffset]
    /\ handlers = [t \in Tasks |-> IdleTask]
    /\ started = 0
    /\ generation = 0
    /\ lastPlan = NoPlan
    /\ now = StartOfPlanning
    /\ stopAt = StartOfPlanning
    /\ fired = {}
    /\ tasks = {}
    /\ sent = {}
    /\ presses = 0
    /\ answered = {}

\* await queries.upsert_workout_log(db, log) is entered; earlier is the log of
\* the call before it, before is the table the call finds
CallUpsert ==
    /\ calc.pc = "idle"
    /\ calc.calls < MaxCalls
    /\ \E user_id \in UserIds, date \in LogDates, f \in LogFields :
          calc' = [calc EXCEPT
                      !.pc = "select",
                      !.earlier = calc.log,
                      !.log = WorkoutLogCreate(user_id, date, f[1], f[2], f[3]),
                      !.before = logs,
                      !.calls = calc.calls + 1]
    /\ UNCHANGED <<jobs, schedules, offsets, handlers, started, generation, lastPlan,
                   now, stopAt, fireVars>>

\* existing = await db.fetch_one("SELECT id FROM workout_logs WHERE ...")
CallSelect ==
    /\ calc.pc = "select"
    /\ calc' = [calc EXCEPT
                   !.pc = "write",
                   !.existing = SelectLogId(logs, calc.log.user_id, calc.log.date)]
    /\ UNCHANGED <<jobs, schedules, offsets, handlers, started, generation, lastPlan,
                   now, stopAt, fireVars>>

\* await db.execute(UPDATE or INSERT)
CallWrite ==
    /\ calc.pc = "write"
    /\ logs' = WriteLogRow(logs, calc.existing, calc.log)
    /\ calc' = [calc EXCEPT !.pc = "idle"]
    /\ UNCHANGED <<jobs, schedules, offsets, handlers, started, generation, lastPlan,
                   now, stopAt, fired, tasks, sent, presses, answered>>

NextUpsert == CallUpsert \/ CallSelect \/ CallWrite

SpecUpsert == InitUpsert /\ [][NextUpsert]_vars

-----------------------------------------------------------------------------
(* Table workout_schedule with its autoincrement id, under the statements   *)
(* that write it, in any order: the INSERT OR IGNORE of add_workout_schedule *)
(* (handlers/start.py inserts without a DELETE before it), the DELETE of a   *)
(* user's week type (handlers/schedule.py) and the DELETE of a user          *)
(* (replace_workout_schedule).                                               *)

MaxStatements == 4

\* the rows of the table that hold the tuple of a ScheduleCreate
SameTuple(table, row) ==
    {r \in table : /\ r.user_id = row.user_id /\ r.weekday = row.weekday
                   /\ r.time = row.time /\ r.week_type = row.week_type}

\* an INSERT without the UNIQUE constraint: the row is stored under the next id
InsertAgain(table, row, id) ==
    table \cup {[id |-> id, user_id |-> row.user_id, weekday |-> row.weekday,
                 time |-> row.time, week_type |-> row.week_type]}

\* INSERT OR IGNORE INTO workout_schedule (user_id, weekday, time, week_type)
\* under UNIQUE(user_id, weekday, time, week_type): a row that would break the
\* constraint is skipped, and the statement succeeds
InsertOrIgnore(table, row, id) ==
    IF SameTuple(table, row) # {} THEN table
    ELSE table \cup {[id |-> id, user_id |-> row.user_id, weekday |-> row.weekday,
                      time |-> row.time, week_type |-> row.week_type]}

StoredTuples ==
    {ScheduleCreate(u, d, TimeStr(22, 0), w) :
         u \in UserIds, d \in {0, 6}, w \in {"any", "even"}}

InitStore ==
    /\ schedules = {}
    /\ calc = [op |-> "store", statements |-> 0, next_id |-> 1,
               inserted |-> NoCall, found |-> FALSE, before |-> {}]
    /\ jobs = schedule_global_jobs({})
    /\ offsets = [u \in UserIds |-> NoOffset]
    /\ handlers = [t \in Tasks |-> IdleTask]
    /\ started = 0
    /\ generation = 0
    /\ lastPlan = NoPlan
    /\ now = StartOfPlanning
    /\ stopAt = StartOfPlanning
    /\ fired = {}
    /\ tasks = {}
    /\ logs = {}
    /\ sent = {}
    /\ presses = 0
    /\ answered = {}

\* await queries.add_workout_schedule(db, entry); found says that the tuple
\* was stored, before is the table the statement found
AddSchedule ==
    /\ calc.statements < MaxStatements
    /\ \E row \in StoredTuples :
          /\ schedules' = InsertOrIgnore(schedules, row, calc.next_id)
          /\ calc' = [calc EXCEPT
                         !.statements = calc.statements + 1,
                         !.next_id = IF SameTuple(schedules, row) # {}
                                     THEN calc.next_id ELSE calc.next_id + 1,
                         !.inserted = row,
                         !.found = SameTuple(schedules, row) # {},
                         !.before = schedules]
    /\ UNCHANGED <<jobs, offsets, handlers, started, generation, lastPlan,
                   now, stopAt, fireVars>>

\* DELETE FROM workout_schedule WHERE user_id = ? AND week_type = ?
DeleteWeekType ==
    /\ calc.statements < MaxStatements
    /\ \E u \in UserIds, w \in {"any", "even"} :
          schedules' = {r \in schedules : ~(r.user_id = u /\ r.week_type = w)}
    /\ calc' = [calc EXCEPT !.statements = calc.statements + 1,
                            !.inserted = NoCall, !.found = FALSE, !.before = schedules]
    /\ UNCHANGED <<jobs, offsets, handlers, started, generation, lastPlan,
                   now, stopAt, fireVars>>

\* DELETE FROM workout_schedule WHERE user_id = ?
DeleteUser ==
    /\ calc.statements < MaxStatements
    /\ \E u \in UserIds : schedules' = {r \in schedules : r.user_id # u}
    /\ calc' = [calc EXCEPT !.statements = calc.statements + 1,
                            !.inserted = NoCall, !.found = FALSE, !.before = schedules]
    /\ UNCHANGED <<jobs, offsets, handlers, started, generation, lastPlan,
                   now, stopAt, fireVars>>

NextStore == AddSchedule \/ DeleteWeekType \/ DeleteUser

SpecStore == InitStore /\ [][NextStore]_vars

-----------------------------------------------------------------------------
(* scheduler.py load_all_schedules at process start (main.py): the global   *)
(* jobs are installed, the scheduler is not started and no update is polled *)
(* yet.  Both users are in table users; at most MaxStored of StoredTuples   *)
(* are stored, and an offset is NULL, 0 or 1.                               *)

MaxStored == 3

\* the value of the column as it is stored
RawOffset(value) == value

\* int(user.get("week_parity_offset") or 0)
StoredOffset(value) == IF value = NoOffset \/ value = 0 THEN 0 ELSE value

InitLoad ==
    /\ \E rows \in SUBSET StoredTuples :
          /\ Cardinality(rows) <= MaxStored
          /\ schedules = rows
    /\ offsets \in [UserIds -> {NoOffset, 0, 1}]
    /\ calc = [op |-> "load", pc |-> "list", users |-> <<>>, schedule |-> <<>>]
    /\ jobs = schedule_global_jobs({})
    /\ handlers = [t \in Tasks |-> IdleTask]
    /\ started = 0
    /\ generation = 0
    /\ lastPlan = NoPlan
    /\ now = StartOfPlanning
    /\ stopAt = StartOfPlanning
    /\ fired = {}
    /\ tasks = {}
    /\ logs = {}
    /\ sent = {}
    /\ presses = 0
    /\ answered = {}

\* users = await queries.list_users(db): SELECT * FROM users, in an order the
\* statement does not fix
LoadUsers ==
    /\ calc.pc = "list"
    /\ \E order \in [1..Cardinality(UserIds) -> UserIds] :
          /\ Range(order) = UserIds
          /\ calc' = [calc EXCEPT
                         !.users = [k \in DOMAIN order |->
                                       [id |-> order[k],
                                        week_parity_offset |-> offsets[order[k]]]],
                         !.pc = "read"]
    /\ UNCHANGED <<jobs, schedules, offsets, handlers, started, generation, lastPlan,
                   now, stopAt, fireVars>>

\* schedule = await queries.get_workout_schedule(db, user_id)
LoadRead ==
    /\ calc.pc = "read"
    /\ calc' = [calc EXCEPT
                   !.schedule = get_workout_schedule(schedules, Head(calc.users).id),
                   !.pc = "plan"]
    /\ UNCHANGED <<jobs, schedules, offsets, handlers, started, generation, lastPlan,
                   now, stopAt, fireVars>>

\* schedule_user_jobs(scheduler, db, bot, user_id, tg_id, schedule,
\* week_parity_offset, tz), and the next user of the loop
LoadPlan ==
    LET user == Head(calc.users)
    IN  /\ calc.pc = "plan"
        /\ generation' = generation + 1
        /\ jobs' = schedule_user_jobs(jobs, user.id, calc.schedule,
                                      StoredOffset(user.week_parity_offset),
                                      generation + 1)
        /\ lastPlan' = [user_id |-> user.id, schedule |-> calc.schedule,
                        gen |-> generation + 1,
                        removed |-> Cardinality(jobs \ _remove_user_jobs(jobs, user.id)),
                        repeat |-> FALSE]
        /\ calc' = [calc EXCEPT !.users = Tail(calc.users), !.schedule = <<>>,
                                !.pc = IF Tail(calc.users) = <<>> THEN "done" ELSE "read"]
        /\ UNCHANGED <<schedules, offsets, handlers, started, now, stopAt, fireVars>>

NextLoad == LoadUsers \/ LoadRead \/ LoadPlan

SpecLoad == InitLoad /\ [][NextLoad]_vars

-----------------------------------------------------------------------------
(* scheduler.py: the weekly triggers and their callbacks *)

\* the bounds of a run of the triggers
MaxEntries == 2
HorizonDays == 16
MaxPresses == 2

\* Sunday 2026-12-20 00:00: ISO weeks 51, 52, 53 of 2026 and week 1 of 2027 follow
StartOfRun == 9848 * MinutesPerDay
HorizonEnd == StartOfRun + HorizonDays * MinutesPerDay
\* Sunday 2026-12-27 00:00
StartOfLog == StartOfRun + 7 * MinutesPerDay
\* a run with a user in it starts this long before the workout, in minutes
LogLead == 90

\* the entries the stored schedule of that user is drawn from
SlotChoices == {<<0, TimeStr(0, 30)>>, <<2, TimeStr(10, 0)>>, <<6, TimeStr(22, 0)>>}
EntryUniverse ==
    {[weekday |-> sl[1], time |-> sl[2], week_type |-> w] :
         sl \in SlotChoices, w \in WeekTypes}

\* minute of the week (Monday 00:00 is 0) a weekly CronTrigger fires at
WeekSlot(trigger) ==
    trigger.day_of_week * MinutesPerDay + trigger.hour * 60 + trigger.minute

Due(trigger, t) == t % MinutesPerWeek = WeekSlot(trigger)

\* the first fire time of a weekly CronTrigger after t
NextFireTime(trigger, t) ==
    LET c == t - (t % MinutesPerWeek) + WeekSlot(trigger)
    IN  IF c > t THEN c ELSE c + MinutesPerWeek

\* the minute of the week of a schedule entry
EntrySlot(entry) ==
    LET hm == _parse_time(entry.time)
    IN  entry.weekday * MinutesPerDay + hm[1] * 60 + hm[2]

\* the first occurrence of an entry at or after t, the last one at or before t
NextOccurrence(entry, t) ==
    LET c == t - (t % MinutesPerWeek) + EntrySlot(entry)
    IN  IF c >= t THEN c ELSE c + MinutesPerWeek

PrevOccurrence(entry, t) ==
    LET c == t - (t % MinutesPerWeek) + EntrySlot(entry)
    IN  IF c <= t THEN c ELSE c - MinutesPerWeek

\* a reminder that takes the fire instant for the workout time
ReminderWorkoutAtNow(t, hours_before) == t

\* _reminder_job: datetime.now(tz).replace(second=0, microsecond=0) + timedelta(hours=hours_before)
ReminderWorkoutAt(t, hours_before) == t + hours_before * 60

\* _confirmation_job: now.replace(hour=workout_hour, minute=workout_minute, ...)
ConfirmWorkoutAt(t, workout_hour, workout_minute) ==
    ReplaceTime(t, workout_hour, workout_minute)

\* a missed check that takes the workout time on the day it runs
MissedWorkoutAtSameDay(t, workout_hour, workout_minute) ==
    ReplaceTime(t, workout_hour, workout_minute)

\* _missed_job: the same, a day earlier when that lies after now
MissedWorkoutAt(t, workout_hour, workout_minute) ==
    LET workout_at == ReplaceTime(t, workout_hour, workout_minute)
    IN  IF workout_at > t THEN workout_at - MinutesPerDay ELSE workout_at

\* a message: job is the id of the job that sent it, at the instant, workout_at
\* the workout time its text or its buttons carry
Message(kind, job, workout_at, data) ==
    [kind |-> kind, job |-> job.id, user_id |-> job.user_id, at |-> now,
     workout_at |-> workout_at, hours_before |-> job.hours_before, data |-> data]

\* workout_confirmation_kb(workout_at.isoformat()): callback_data of the buttons
ButtonData(status, iso) == <<"workout", ":", status, ":">> \o iso

Task(kind, key, pc, user_id, workout_at, date, status) ==
    [kind |-> kind, key |-> key, pc |-> pc, user_id |-> user_id,
     workout_at |-> workout_at, date |-> date, status |-> status, existing |-> 0]

UserJob(j) == j.func \in {"_reminder_job", "_confirmation_job", "_missed_job"}

Runnable(j, func) ==
    /\ j \in jobs
    /\ j.func = func
    /\ Due(j.trigger, now)
    /\ j.id \notin fired

\* the scheduler moves to the next fire time once the jobs due now have run
\* and their coroutines have finished
Tick ==
    /\ tasks = {}
    /\ \A j \in jobs : (UserJob(j) /\ Due(j.trigger, now)) => j.id \in fired
    /\ \E j \in jobs :
          /\ UserJob(j)
          /\ \A q \in jobs : UserJob(q) =>
                 NextFireTime(j.trigger, now) <= NextFireTime(q.trigger, now)
          /\ NextFireTime(j.trigger, now) < stopAt
          /\ now' = NextFireTime(j.trigger, now)
    /\ fired' = {}
    /\ UNCHANGED <<calc, jobs, schedules, offsets, handlers, started, generation, lastPlan,
                   stopAt, tasks, logs, sent, presses, answered>>

FireReminder(j) ==
    /\ Runnable(j, "_reminder_job")
    /\ fired' = fired \cup {j.id}
    /\ LET workout_at == ReminderWorkoutAt(now, j.hours_before)
       IN  sent' = IF is_week_allowed(workout_at, j.week_parity_offset, j.week_type)
                   THEN sent \cup {Message("reminder", j, workout_at, <<>>)}
                   ELSE sent
    /\ UNCHANGED <<calc, jobs, schedules, offsets, handlers, started, generation, lastPlan,
                   stopAt, now, tasks, logs, presses, answered>>

\* _confirmation_job and ask_workout_confirmation
FireConfirm(j) ==
    /\ Runnable(j, "_confirmation_job")
    /\ fired' = fired \cup {j.id}
    /\ LET workout_at == ConfirmWorkoutAt(now, j.workout_hour, j.workout_minute)
       IN  sent' = IF is_week_allowed(workout_at, j.week_parity_offset, j.week_type)
                   THEN sent \cup {Message("prompt", j, workout_at, isoformat(workout_at))}
                   ELSE sent
    /\ UNCHANGED <<calc, jobs, schedules, offsets, handlers, started, generation, lastPlan,
                   stopAt, now, tasks, logs, presses, answered>>

\* _missed_job up to the first await of mark_missed_if_no_response
FireMissed(j) ==
    /\ Runnable(j, "_missed_job")
    /\ fired' = fired \cup {j.id}
    /\ LET workout_at == MissedWorkoutAt(now, j.workout_hour, j.workout_minute)
       IN  tasks' = IF is_week_allowed(workout_at, j.week_parity_offset, j.week_type)
                    THEN tasks \cup {Task("sweep", j.id, "exists", j.user_id, workout_at,
                                          isoformat(workout_at), "missed")}
                    ELSE tasks
    /\ UNCHANGED <<calc, jobs, schedules, offsets, handlers, started, generation, lastPlan,
                   stopAt, now, logs, sent, presses, answered>>

\* mark_missed_if_no_response: if await queries.workout_log_exists(...): return
SweepExists(k) ==
    /\ k \in tasks
    /\ k.kind = "sweep"
    /\ k.pc = "exists"
    /\ tasks' = IF workout_log_exists(logs, k.user_id, k.workout_at)
                THEN tasks \ {k}
                ELSE (tasks \ {k}) \cup {[k EXCEPT !.pc = "select"]}
    /\ UNCHANGED <<calc, jobs, schedules, offsets, handlers, started, generation, lastPlan,
                   stopAt, now, fired, logs, sent, presses, answered>>

\* upsert_workout_log: existing = await db.fetch_one("SELECT id ...")
UpsertSelect(k) ==
    /\ k \in tasks
    /\ k.pc = "select"
    /\ tasks' = (tasks \ {k}) \cup
           {[k EXCEPT !.pc = "write", !.existing = SelectLogId(logs, k.user_id, k.date)]}
    /\ UNCHANGED <<calc, jobs, schedules, offsets, handlers, started, generation, lastPlan,
                   stopAt, now, fired, logs, sent, presses, answered>>

\* upsert_workout_log: await db.execute(UPDATE or INSERT); a callback or a /log
\* command then answers the user (sent records the messages of the triggers
\* only), the sweep goes on to its notification
UpsertWrite(k) ==
    /\ k \in tasks
    /\ k.pc = "write"
    /\ logs' = WriteLog(logs, k.existing, k.user_id, k.date, k.status)
    /\ tasks' = IF k.kind = "sweep"
                THEN (tasks \ {k}) \cup {[k EXCEPT !.pc = "notify"]}
                ELSE tasks \ {k}
    /\ answered' = IF k.kind = "sweep" THEN answered
                   ELSE answered \cup {[kind |-> k.kind, user_id |-> k.user_id,
                                        date |-> k.date, status |-> k.status,
                                        at |-> now]}
    /\ UNCHANGED <<calc, jobs, schedules, offsets, handlers, started, generation, lastPlan,
                   stopAt, now, fired, sent, presses>>

\* mark_missed_if_no_response: await bot.send_message(tg_id, "... пропуск ...")
SweepNotify(k) ==
    /\ k \in tasks
    /\ k.kind = "sweep"
    /\ k.pc = "notify"
    /\ sent' = sent \cup {Message("missed", CHOOSE j \in jobs : j.id = k.key,
                                    k.workout_at, <<>>)}
    /\ tasks' = tasks \ {k}
    /\ UNCHANGED <<calc, jobs, schedules, offsets, handlers, started, generation, lastPlan,
                   stopAt, now, fired, logs, presses, answered>>

-----------------------------------------------------------------------------
(* handlers/workouts.py: what the user does *)

PressKey(n) == <<"press">> \o IntStr(n)

\* workout_callback up to the SELECT of upsert_workout_log: the user presses a
\* button of a prompt; the data is split, the status checked, the user looked
\* up (no task writes table users here), the date parsed
PressButton(m, status) ==
    /\ presses < MaxPresses
    /\ m \in sent
    /\ m.kind = "prompt"
    /\ LET parts == SplitColon(ButtonData(status, m.data), 2)
       IN  /\ Len(parts) = 3
           /\ parts[2] \in {<<"done">>, <<"missed">>}
           /\ tasks' = tasks \cup
                  {Task("callback", PressKey(presses + 1), "select", m.user_id,
                        fromisoformat(parts[3]), isoformat(fromisoformat(parts[3])),
                        parts[2][1])}
    /\ presses' = presses + 1
    /\ UNCHANGED <<calc, jobs, schedules, offsets, handlers, started, generation, lastPlan,
                   stopAt, now, fired, logs, sent, answered>>

\* log_command with a status argument, up to the SELECT of upsert_workout_log:
\* workout_at = datetime.now(tz).replace(second=0, microsecond=0)
LogCommand(user_id, status) ==
    /\ presses < MaxPresses
    /\ tasks' = tasks \cup
           {Task("log", PressKey(presses + 1), "select", user_id, now,
                 isoformat(now), status)}
    /\ presses' = presses + 1
    /\ UNCHANGED <<calc, jobs, schedules, offsets, handlers, started, generation, lastPlan,
                   stopAt, now, fired, logs, sent, answered>>

-----------------------------------------------------------------------------
(* Runs of the triggers *)

\* the process has started: load_all_schedules has planned the stored schedule
InitRun(entries, offset, start, stop) ==
    /\ schedules = {ScheduleCreate(FireUser, e.weekday, e.time, e.week_type) :
                        e \in entries}
    /\ offsets = [u \in UserIds |-> IF u = FireUser THEN offset ELSE NoOffset]
    /\ jobs = schedule_user_jobs({}, FireUser,
                                 get_workout_schedule(schedules, FireUser), offset, 1)
    /\ handlers = [t \in Tasks |-> IdleTask]
    /\ started = 0
    /\ generation = 1
    /\ lastPlan = [NoPlan EXCEPT !.user_id = FireUser, !.gen = 1,
                       !.schedule = get_workout_schedule(schedules, FireUser)]
    /\ now = start
    /\ stopAt = stop
    /\ fired = {}
    /\ tasks = {}
    /\ logs = {}
    /\ sent = {}
    /\ presses = 0
    /\ answered = {}
    /\ calc = NoCalc

\* the triggers of a stored schedule run and nobody answers
InitFire ==
    \E entries \in SUBSET EntryUniverse, offset \in {0, 1} :
        /\ entries # {}
        /\ Cardinality(entries) <= MaxEntries
        /\ InitRun(entries, offset, StartOfRun, HorizonEnd)

NextFire ==
    \/ Tick
    \/ \E j \in jobs : FireReminder(j)
    \/ \E j \in jobs : FireConfirm(j)
    \/ \E j \in jobs : FireMissed(j)
    \/ \E k \in tasks : SweepExists(k)
    \/ \E k \in tasks : UpsertSelect(k)
    \/ \E k \in tasks : UpsertWrite(k)
    \/ \E k \in tasks : SweepNotify(k)

SpecFire == InitFire /\ [][NextFire]_vars

\* the triggers of one entry run and the user answers prompts and sends /log
InitLog ==
    \E e \in EntryUniverse, offset \in {0, 1} :
        LET start == NextOccurrence(e, StartOfLog) - LogLead
        IN  InitRun({e}, offset, start, start + MinutesPerDay)

NextLog ==
    \/ NextFire
    \/ \E m \in sent, status \in {"done", "missed"} : PressButton(m, status)
    \/ \E status \in {"done", "missed"} : LogCommand(FireUser, status)

SpecLog == InitLog /\ [][NextLog]_vars

-----------------------------------------------------------------------------
(* scheduler.py, services/reminders.py: the jobs when a delivery fails.     *)
(* Each job of the scheduler runs once: the three kinds of triggers of each *)
(* user, the weekly weight prompt and the monthly report.  bot.send_message *)
(* raises for the users who blocked the bot.  The scheduler runs each job   *)
(* on its own, so a job that raised ends alone; inside a job an exception   *)
(* ends the job where it is raised unless the code catches it.              *)

\* the workout whose missed check runs, and the date its log is stored under
DeliverAt == StartOfPlanning

DeliverDate == isoformat(DeliverAt)

TriggerFuncs == {"_reminder_job", "_confirmation_job", "_missed_job"}

LoopFuncs == {"_weekly_weight_job", "_monthly_report_job"}

NoRun == [func |-> "none", user_id |-> 0, pc |-> "none", index |-> 0, existing |-> 0]

Delivered(kind, user_id) == [kind |-> kind, user_id |-> user_id]

\* await bot.send_message(tg_id, ...): the messages delivered afterwards, and
\* whether the call raised
send_message(c, user_id, kind) ==
    [delivered |-> IF user_id \in c.blocked THEN c.delivered
                   ELSE c.delivered \cup {Delivered(kind, user_id)},
     raised |-> user_id \in c.blocked]

\* a send whose exception leaves the caller
SendOrRaise(c, user_id, kind) == send_message(c, user_id, kind)

\* try: await bot.send_message(...) except Exception as e: logger.error(...)
TrySend(c, user_id, kind) ==
    [delivered |-> send_message(c, user_id, kind).delivered, raised |-> FALSE]

\* the running job ends, returning or raising
Finish(c, outcome) ==
    [c EXCEPT !.run = NoRun,
              !.finished = @ \cup {[func |-> c.run.func, user_id |-> c.run.user_id,
                                    outcome |-> outcome]}]

Sent(c, r) ==
    Finish([c EXCEPT !.delivered = r.delivered], IF r.raised THEN "raised" ELSE "returned")

DeliverFrame ==
    UNCHANGED <<jobs, schedules, offsets, handlers, started, generation, lastPlan,
                now, stopAt, fired, tasks, sent, presses, answered>>

\* SELECT * FROM users has no ORDER BY: the users come in either order; the
\* first user may have logged the workout the missed check looks up
InitDeliver ==
    /\ \E blocked \in SUBSET UserIds, users \in {<<FireUser, OtherUser>>, <<OtherUser, FireUser>>} :
          calc = [op |-> "deliver", blocked |-> blocked, users |-> users,
                  pending |-> (TriggerFuncs \X UserIds) \cup (LoopFuncs \X {0}),
                  run |-> NoRun, finished |-> {}, delivered |-> {}]
    /\ logs \in {{}, InsertLog({}, FireUser, DeliverDate, "done")}
    /\ jobs = schedule_global_jobs({})
    /\ schedules = {}
    /\ offsets = [u \in UserIds |-> 0]
    /\ handlers = [t \in Tasks |-> IdleTask]
    /\ started = 0
    /\ generation = 0
    /\ lastPlan = NoPlan
    /\ now = StartOfPlanning
    /\ stopAt = StartOfPlanning
    /\ fired = {}
    /\ tasks = {}
    /\ sent = {}
    /\ presses = 0
    /\ answered = {}

\* the scheduler starts a job that is due, up to its first await
StartJob ==
    /\ calc.run = NoRun
    /\ \E p \in calc.pending :
          calc' = [calc EXCEPT
                      !.pending = @ \ {p},
                      !.run = [NoRun EXCEPT
                                  !.func = p[1], !.user_id = p[2], !.index = 1,
                                  !.pc = IF p[1] \in LoopFuncs THEN "list"
                                         ELSE IF p[1] = "_missed_job" THEN "exists"
                                         ELSE "send"]]
    /\ UNCHANGED logs
    /\ DeliverFrame

\* _reminder_job: try: await bot.send_message(tg_id, message) except ...
ReminderSend ==
    /\ calc.run.func = "_reminder_job"
    /\ calc.run.pc = "send"
    /\ calc' = Sent(calc, TrySend(calc, calc.run.user_id, "reminder"))
    /\ UNCHANGED logs
    /\ DeliverFrame

\* _confirmation_job: await ask_workout_confirmation(bot, tg_id, workout_at)
ConfirmSend ==
    /\ calc.run.func = "_confirmation_job"
    /\ calc.run.pc = "send"
    /\ calc' = Sent(calc, TrySend(calc, calc.run.user_id, "prompt"))
    /\ UNCHANGED logs
    /\ DeliverFrame

\* mark_missed_if_no_response: if await queries.workout_log_exists(...): return
MissedExists ==
    /\ calc.run.func = "_missed_job"
    /\ calc.run.pc = "exists"
    /\ calc' = IF workout_log_exists(logs, calc.run.user_id, DeliverAt)
               THEN Finish(calc, "returned")
               ELSE [calc EXCEPT !.run.pc = "select"]
    /\ UNCHANGED logs
    /\ DeliverFrame

\* upsert_workout_log: the SELECT
MissedSelect ==
    /\ calc.run.func = "_missed_job"
    /\ calc.run.pc = "select"
    /\ calc' = [calc EXCEPT !.run.pc = "write",
                            !.run.existing = SelectLogId(logs, calc.run.user_id,
                                                         DeliverDate)]
    /\ UNCHANGED logs
    /\ DeliverFrame

\* upsert_workout_log: the UPDATE or INSERT of the 'missed' log
MissedWrite ==
    /\ calc.run.func = "_missed_job"
    /\ calc.run.pc = "write"
    /\ logs' = WriteLog(logs, calc.run.existing, calc.run.user_id,
                        DeliverDate, "missed")
    /\ calc' = [calc EXCEPT !.run.pc = "notify"]
    /\ DeliverFrame

\* mark_missed_if_no_response: try: await bot.send_message(...) except ...
MissedNotify ==
    /\ calc.run.func = "_missed_job"
    /\ calc.run.pc = "notify"
    /\ calc' = Sent(calc, TrySend(calc, calc.run.user_id, "missed"))
    /\ UNCHANGED logs
    /\ DeliverFrame

\* users = await queries.list_users(db)
ListUsers ==
    /\ calc.run.func \in LoopFuncs
    /\ calc.run.pc = "list"
    /\ calc' = [calc EXCEPT !.run.pc = "loop"]
    /\ UNCHANGED logs
    /\ DeliverFrame

\* _weekly_weight_job, one turn of for user in users: the look-up of the
\* latest weight and the send are inside try ... except Exception
WeeklyUser ==
    /\ calc.run.func = "_weekly_weight_job"
    /\ calc.run.pc = "loop"
    /\ calc' = IF calc.run.index > Len(calc.users) THEN Finish(calc, "returned")
               ELSE LET r == TrySend(calc, calc.users[calc.run.index], "weight")
                    IN  IF r.raised THEN Sent(calc, r)
                        ELSE [calc EXCEPT !.delivered = r.delivered,
                                          !.run.index = @ + 1]
    /\ UNCHANGED logs
    /\ DeliverFrame

\* _monthly_report_job, one turn of for user in users up to the report:
\* report = await build_monthly_report(...); await bot.send_message(tg_id, message)
MonthlyUser ==
    /\ calc.run.func = "_monthly_report_job"
    /\ calc.run.pc = "loop"
    /\ calc' = IF calc.run.index > Len(calc.users) THEN Finish(calc, "returned")
               ELSE LET r == send_message(calc, calc.users[calc.run.index], "report")
                    IN  IF r.raised THEN Sent(calc, r)
                        ELSE [calc EXCEPT !.delivered = r.delivered,
                                          !.run.pc = "extras"]
    /\ UNCHANGED logs
    /\ DeliverFrame

\* _monthly_report_job, the rest of the turn: the chart when the report has
\* weights, the warning when the discipline is under 70
MonthlyExtras ==
    /\ calc.run.func = "_monthly_report_job"
    /\ calc.run.pc = "extras"
    /\ \E extras \in SUBSET {"chart", "warning"} :
          LET user_id == calc.users[calc.run.index]
              chart == IF "chart" \in extras THEN send_message(calc, user_id, "chart")
                       ELSE [delivered |-> calc.delivered, raised |-> FALSE]
              c == [calc EXCEPT !.delivered = chart.delivered]
              warning == IF "warning" \in extras THEN send_message(c, user_id, "warning")
                         ELSE [delivered |-> c.delivered, raised |-> FALSE]
          IN  calc' = IF chart.raised THEN Sent(calc, chart)
                      ELSE IF warning.raised THEN Sent(c, warning)
                      ELSE [c EXCEPT !.delivered = warning.delivered,
                                     !.run.pc = "loop", !.run.index = @ + 1]
    /\ UNCHANGED logs
    /\ DeliverFrame

NextDeliver ==
    \/ StartJob
    \/ ReminderSend
    \/ ConfirmSend
    \/ MissedExists
    \/ MissedSelect
    \/ MissedWrite
    \/ MissedNotify
    \/ ListUsers
    \/ WeeklyUser
    \/ MonthlyUser
    \/ MonthlyExtras

SpecDeliver == InitDeliver /\ [][NextDeliver]_vars

-----------------------------------------------------------------------------
(* Calls of calculate_discipline_score on counts of completed and scheduled *)
(* workouts, the scheduled count possibly zero or negative.                 *)

MaxScheduled == 40

MaxCompleted == 45

MinCount == 0 - 3

InitScore ==
    /\ \E completed \in MinCount..MaxCompleted, scheduled \in MinCount..MaxScheduled :
          calc = [op |-> "score", completed |-> completed, scheduled |-> scheduled,
                  score |-> 0, called |-> FALSE]
    /\ jobs = schedule_global_jobs({})
    /\ schedules = {}
    /\ offsets = [u \in UserIds |-> NoOffset]
    /\ handlers = [t \in Tasks |-> IdleTask]
    /\ started = 0
    /\ generation = 0
    /\ lastPlan = NoPlan
    /\ now = StartOfPlanning
    /\ stopAt = StartOfPlanning
    /\ fired = {}
    /\ tasks = {}
    /\ logs = {}
    /\ sent = {}
    /\ presses = 0
    /\ answered = {}

\* score = calculate_discipline_score(stats["done"], scheduled)
CalculateScore ==
    /\ ~calc.called
    /\ calc' = [calc EXCEPT !.score = calculate_discipline_score(calc.completed,
                                                                calc.scheduled),
                            !.called = TRUE]
    /\ UNCHANGED <<jobs, schedules, offsets, handlers, started, generation, lastPlan,
                   now, stopAt, fireVars>>

NextScore == CalculateScore

SpecScore == InitScore /\ [][NextScore]_vars

-----------------------------------------------------------------------------
(* db/queries.py, services/analytics.py: the weights of a monthly report.   *)
(* Users enter weights as the clock goes through a few moments around       *)
(* October 2026, until a report of the month before the clock is built.     *)
(* A weight is kept in tenths of a kilogram, a difference and a percentage  *)
(* in hundredths; an Optional is <<>> for None and <<v>> for a value.       *)

MaxWeights == 3

\* 78.5, 80.0 and 82.4 kg for the first user, 75.0 kg for the other
WeightChoices == [u \in UserIds |-> IF u = FireUser THEN {785, 800, 824} ELSE {750}]

\* 2026-09-30 23:59, 2026-10-01 00:00 and 08:00, 2026-10-20 08:00,
\* 2026-10-31 23:59, 2026-11-01 00:00 and 09:00
Moments ==
    <<9767 * MinutesPerDay + 1439, 9768 * MinutesPerDay, 9768 * MinutesPerDay + 480,
      9787 * MinutesPerDay + 480, 9798 * MinutesPerDay + 1439, 9799 * MinutesPerDay,
      9799 * MinutesPerDay + 540>>

\* entry.date.isoformat() at each moment
MomentDates == [i \in DOMAIN Moments |-> isoformat(Moments[i])]

\* the order of the characters of a date text
CharRank(c) ==
    IF c = "+" THEN 43 ELSE IF c = "-" THEN 45 ELSE IF c = ":" THEN 58
    ELSE IF c = "T" THEN 84 ELSE 48 + DigitVal(c)

\* a <= b for TEXT values, as SQLite compares them
RECURSIVE TextLeq(_, _)
TextLeq(a, b) ==
    IF a = <<>> THEN TRUE
    ELSE IF b = <<>> THEN FALSE
    ELSE IF Head(a) = Head(b) THEN TextLeq(Tail(a), Tail(b))
    ELSE CharRank(Head(a)) < CharRank(Head(b))

\* month_range(target): the first day at 00:00:00 and the last day at
\* 23:59:59, as the texts of their isoformat()
month_range(target) ==
    LET yd == YearDay(2000, DayOf(target) + 2)
        md == MonthDay(yd[1], 1, yd[2] - 1)
        first == DayOf(target) - (md[2] - 1)
        last == first + DaysInMonth(yd[1], md[1]) - 1
    IN  <<isoformat(first * MinutesPerDay),
          SubSeq(isoformat(last * MinutesPerDay + 1439), 1, 17) \o <<"5", "9">> \o UtcOffset>>

\* previous_month_range(target): the month of the second before the first
\* of the month
previous_month_range(target) ==
    LET yd == YearDay(2000, DayOf(target) + 2)
        md == MonthDay(yd[1], 1, yd[2] - 1)
        first_this_month == DayOf(target) - (md[2] - 1)
    IN  month_range(first_this_month * MinutesPerDay - 1)

\* WHERE user_id = ? AND date >= ? AND date <= ?
WeightsBetween(table, user_id, start, end) ==
    {r \in table : r.user_id = user_id /\ TextLeq(start, r.date) /\ TextLeq(r.date, end)}

\* a look-up of the first weight of the user, whatever the range
FirstWeightOfUser(table, user_id, start, end) ==
    LET rows == {r \in table : r.user_id = user_id}
    IN  IF rows = {} THEN <<>>
        ELSE <<(CHOOSE r \in rows : \A q \in rows : TextLeq(r.date, q.date)).weight>>

\* ... ORDER BY date ASC LIMIT 1: the weight of the row, None for no row
get_first_weight_between(table, user_id, start, end) ==
    LET rows == WeightsBetween(table, user_id, start, end)
    IN  IF rows = {} THEN <<>>
        ELSE <<(CHOOSE r \in rows : \A q \in rows : TextLeq(r.date, q.date)).weight>>

\* ... ORDER BY date DESC LIMIT 1
get_last_weight_between(table, user_id, start, end) ==
    LET rows == WeightsBetween(table, user_id, start, end)
    IN  IF rows = {} THEN <<>>
        ELSE <<(CHOOSE r \in rows : \A q \in rows : TextLeq(q.date, r.date)).weight>>

\* the weights of build_monthly_report: diff = round(end_weight - start_weight, 2),
\* diff_percent = round((diff / start_weight) * 100, 2) if start_weight != 0
build_monthly_report(table, user_id, start, end) ==
    LET start_weight == get_first_weight_between(table, user_id, start, end)
        end_weight == get_last_weight_between(table, user_id, start, end)
        both == start_weight # <<>> /\ end_weight # <<>>
        diff == IF both THEN <<(end_weight[1] - start_weight[1]) * 10>> ELSE <<>>
    IN  [user_id |-> user_id, start |-> start, end |-> end,
         start_weight |-> start_weight, end_weight |-> end_weight, diff |-> diff,
         diff_percent |-> IF both /\ start_weight[1] # 0
                          THEN <<RoundHundredths(diff[1], start_weight[1] * 10)>>
                          ELSE <<>>]

NoReport == [user_id |-> 0, start |-> <<>>, end |-> <<>>, start_weight |-> <<>>,
             end_weight |-> <<>>, diff |-> <<>>, diff_percent |-> <<>>]

InitWeights ==
    /\ calc = [op |-> "weights", table |-> {}, clock |-> 1, report |-> NoReport]
    /\ now = Moments[1]
    /\ jobs = schedule_global_jobs({})
    /\ schedules = {}
    /\ offsets = [u \in UserIds |-> 0]
    /\ handlers = [t \in Tasks |-> IdleTask]
    /\ started = 0
    /\ generation = 0
    /\ lastPlan = NoPlan
    /\ stopAt = Moments[Len(Moments)]
    /\ fired = {}
    /\ tasks = {}
    /\ logs = {}
    /\ sent = {}
    /\ presses = 0
    /\ answered = {}

\* the clock moves on
LaterMoment ==
    /\ calc.report = NoReport
    /\ calc.clock < Len(Moments)
    /\ calc' = [calc EXCEPT !.clock = @ + 1]
    /\ now' = Moments[calc.clock + 1]
    /\ UNCHANGED <<jobs, schedules, offsets, handlers, started, generation, lastPlan,
                   stopAt, fireVars>>

\* _save_weight: WeightEntry(user_id=, weight=, date=datetime.now(tz)) and
\* add_weight_entry; each user enters one weight at a moment at most
SaveWeight ==
    /\ calc.report = NoReport
    /\ Cardinality(calc.table) < MaxWeights
    /\ \E user_id \in UserIds :
        \E weight \in WeightChoices[user_id] :
          /\ \A r \in calc.table : ~(r.user_id = user_id /\ r.date = MomentDates[calc.clock])
          /\ calc' = [calc EXCEPT !.table = @ \cup
                         {[id |-> Cardinality(calc.table) + 1, user_id |-> user_id,
                           date |-> MomentDates[calc.clock], weight |-> weight]}]
    /\ UNCHANGED <<jobs, schedules, offsets, handlers, started, generation, lastPlan,
                   now, stopAt, fireVars>>

\* _monthly_report_job: report_start, report_end = previous_month_range(now);
\* report = await build_monthly_report(db, user_id, report_start, report_end, ...)
BuildReport ==
    /\ calc.report = NoReport
    /\ \E user_id \in UserIds :
          LET range == previous_month_range(now)
          IN  calc' = [calc EXCEPT !.report =
                          build_monthly_report(calc.table, user_id, range[1], range[2])]
    /\ UNCHANGED <<jobs, schedules, offsets, handlers, started, generation, lastPlan,
                   now, stopAt, fireVars>>

NextWeights == LaterMoment \/ SaveWeight \/ BuildReport

SpecWeights == InitWeights /\ [][NextWeights]_vars

-----------------------------------------------------------------------------
(* db/queries.py get_workout_stats, and a day of one stored entry from the  *)
(* minute of its workout on: the prompt is sent, the user presses its       *)
(* buttons or sends /log, at that minute or LogLag minutes later, and the   *)
(* missed check runs three hours after the workout.                         *)

LogLag == 5

\* SELECT status, COUNT(*) ... WHERE user_id = ? AND date >= ? AND date <= ?
\* GROUP BY status, read into {"done": 0, "missed": 0}
get_workout_stats(table, user_id, start, end) ==
    LET from == isoformat(start)
        to == isoformat(end)
        rows == {r \in table : /\ r.user_id = user_id
                               /\ TextLeq(from, r.date) /\ TextLeq(r.date, to)}
    IN  [done |-> Cardinality({r \in rows : r.status = "done"}),
         missed |-> Cardinality({r \in rows : r.status = "missed"})]

\* the stored entry: any slot, for every week or for the even weeks (which
\* are the allowed ones under one offset and the others under the other)
ManualEntries == {e \in EntryUniverse : e.week_type \in {"any", "even"}}

InitManual ==
    \E e \in ManualEntries, offset \in {0, 1} :
        LET start == NextOccurrence(e, StartOfLog)
        IN  InitRun({e}, offset, start, start + MinutesPerDay)

\* the clock goes on by LogLag minutes from the minute of the workout, once
\* the jobs due at that minute have run
Pause ==
    /\ \E e \in Range(get_workout_schedule(schedules, FireUser)) :
          now = PrevOccurrence(e, now)
    /\ \A j \in jobs : (UserJob(j) /\ Due(j.trigger, now)) => j.id \in fired
    /\ \A j \in jobs : UserJob(j) => NextFireTime(j.trigger, now) > now + LogLag
    /\ now' = now + LogLag
    /\ fired' = {}
    /\ UNCHANGED <<calc, jobs, schedules, offsets, handlers, started, generation, lastPlan,
                   stopAt, tasks, logs, sent, presses, answered>>

NextManual ==
    \/ Tick
    \/ \E j \in jobs : FireConfirm(j)
    \/ \E j \in jobs : FireMissed(j)
    \/ \E k \in tasks : SweepExists(k)
    \/ \E k \in tasks : UpsertSelect(k)
    \/ \E k \in tasks : UpsertWrite(k)
    \/ \E k \in tasks : SweepNotify(k)
    \/ \E m \in sent, status \in {"done", "missed"} : PressButton(m, status)
    \/ \E status \in {"done", "missed"} : LogCommand(FireUser, status)
    \/ Pause

SpecManual == InitManual /\ [][NextManual]_vars

\* Monday 2026-11-02 00:00, the second day of a month
StartOfReport == 9800 * MinutesPerDay

\* the same run in the first days of a month: the entry is a Monday one
InitReport ==
    \E e \in {m \in ManualEntries : m.weekday = 0}, offset \in {0, 1} :
        LET start == NextOccurrence(e, StartOfReport)
        IN  InitRun({e}, offset, start, start + MinutesPerDay)

SpecReport == InitReport /\ [][NextManual]_vars

\* show_report: the report of /report at the time now, from the first of
\* the month to now; the score is in hundredths of a percent
show_report(user_id, t) ==
    LET start == fromisoformat(month_range(t)[1])
        schedule == get_workout_schedule(schedules, user_id)
        stats == get_workout_stats(logs, user_id, start, t)
        scheduled == count_scheduled_workouts(schedule, start, t,
                                              StoredOffset(offsets[user_id]))
    IN  [done |-> stats.done, scheduled |-> scheduled,
         score |-> calculate_discipline_score(stats.done, scheduled)]

-----------------------------------------------------------------------------
(* main.py AccessMiddleware and services/access.py has_access, in front of  *)
(* the handlers of a day of one stored entry: the updates of the user pass  *)
(* the middleware before a handler sees them, the jobs of the scheduler do  *)
(* not. A message text is a sequence of characters, the data of a callback  *)
(* the sequence ButtonData builds.                                          *)

TRIAL_DAYS == 5

UpperCase == <<"A", "B", "C", "D", "E", "F", "G", "H", "I", "J", "K", "L", "M",
               "N", "O", "P", "Q", "R", "S", "T", "U", "V", "W", "X", "Y", "Z">>
LowerCase == <<"a", "b", "c", "d", "e", "f", "g", "h", "i", "j", "k", "l", "m",
               "n", "o", "p", "q", "r", "s", "t", "u", "v", "w", "x", "y", "z">>

\* str.lower()
Lower(s) ==
    [i \in 1..Len(s) |->
        IF \E k \in 1..26 : UpperCase[k] = s[i]
        THEN LowerCase[CHOOSE k \in 1..26 : UpperCase[k] = s[i]]
        ELSE s[i]]

\* str.strip() of a text whose only whitespace is the space
RECURSIVE Strip(_)
Strip(s) ==
    IF s = <<>> THEN s
    ELSE IF Head(s) = " " THEN Strip(Tail(s))
    ELSE IF s[Len(s)] = " " THEN Strip(SubSeq(s, 1, Len(s) - 1))
    ELSE s

\* date.isoformat() of the day of t
DateText(t) == SubSeq(isoformat(t), 1, 10)

\* the row of table users has_access reads
UserRow(created_at, subscription_ends_at) ==
    [created_at |-> created_at, subscription_ends_at |-> subscription_ends_at]

is_admin(tg_id, admin_ids) == admin_ids # {} /\ tg_id \in admin_ids

\* has_access at the time t: user is <<>> for None; the end of the
\* subscription is compared as text, the end of the trial as a date
has_access(tg_id, user, admin_ids, t) ==
    IF is_admin(tg_id, admin_ids) THEN TRUE
    ELSE IF user = <<>> THEN FALSE
    ELSE LET sub_ends == user[1].subscription_ends_at
             created_dt == fromisoformat(user[1].created_at)
             trial_end == DayOf(created_dt + TRIAL_DAYS * MinutesPerDay)
         IN  IF sub_ends # <<>> /\ TextLeq(DateText(t), sub_ends) THEN TRUE
             ELSE DayOf(t) <= trial_end

\* a middleware that lets every callback through
AccessMiddlewareOfMessages(event, tg_id, user, admin_ids, t) ==
    IF is_admin(tg_id, admin_ids) THEN "handler"
    ELSE IF /\ event.kind = "message" /\ event.text # <<>>
            /\ \/ StartsWith(Lower(Strip(event.text)), <<"/", "s", "t", "a", "r", "t">>)
               \/ StartsWith(Lower(Strip(event.text)),
                             <<"/", "t", "a", "r", "i", "f", "f">>)
         THEN "handler"
    ELSE IF event.kind = "callback" THEN "handler"
    ELSE IF user = <<>> THEN "handler"
    ELSE IF has_access(tg_id, user, admin_ids, t) THEN "handler"
    ELSE "paywall"

\* AccessMiddleware.__call__: "handler" when the update goes on to the
\* handler, "paywall" when it is answered with the paywall
AccessMiddleware(event, tg_id, user, admin_ids, t) ==
    IF is_admin(tg_id, admin_ids) THEN "handler"
    ELSE IF /\ event.kind = "message" /\ event.text # <<>>
            /\ \/ StartsWith(Lower(Strip(event.text)), <<"/", "s", "t", "a", "r", "t">>)
               \/ StartsWith(Lower(Strip(event.text)),
                             <<"/", "t", "a", "r", "i", "f", "f">>)
         THEN "handler"
    ELSE IF /\ event.kind = "callback" /\ event.text # <<>>
            /\ StartsWith(event.text, <<"pay", ":">>)
         THEN "handler"
    ELSE IF user = <<>> THEN "handler"
    ELSE IF has_access(tg_id, user, admin_ids, t) THEN "handler"
    ELSE "paywall"

\* the handler the filters of the routers give an update to: Command(...)
\* takes the first word of a message, F.data.startswith(...) the data of a
\* callback
Route(event) ==
    IF event.kind = "message"
    THEN LET word == IF \E i \in 1..Len(event.text) : event.text[i] = " "
                     THEN SubSeq(event.text, 1,
                                 (CHOOSE i \in 1..Len(event.text) :
                                     /\ event.text[i] = " "
                                     /\ \A j \in 1..(i - 1) : event.text[j] # " ") - 1)
                     ELSE event.text
         IN  IF word = <<"/", "s", "t", "a", "r", "t">> THEN "start_command"
             ELSE IF word = <<"/", "t", "a", "r", "i", "f", "f">> THEN "tariff_command"
             ELSE IF word = <<"/", "l", "o", "g">> THEN "log_command"
             ELSE "none"
    ELSE IF StartsWith(event.text, <<"pay", ":">>) THEN "pay_callback"
    ELSE IF StartsWith(event.text, <<"workout", ":">>) THEN "workout_callback"
    ELSE "none"

\* the status argument of /log
LogStatus(text) ==
    IF text = <<"/", "l", "o", "g", " ", "d", "o", "n", "e">> THEN "done" ELSE "missed"

MessageTexts ==
    {<<"/", "l", "o", "g", " ", "d", "o", "n", "e">>,
     <<"/", "l", "o", "g", " ", "m", "i", "s", "s", "e", "d">>,
     <<"/", "s", "t", "a", "r", "t">>,
     <<" ", "/", "T", "a", "r", "i", "f", "f">>}

\* the updates the user can send now: a message, the button of the payment,
\* a button of a prompt that was sent
Updates ==
    {[kind |-> "message", text |-> text] : text \in MessageTexts}
        \cup {[kind |-> "callback", text |-> <<"pay", ":", "month">>]}
        \cup {[kind |-> "callback", text |-> ButtonData(status, m.data)] :
                  m \in {q \in sent : q.kind = "prompt"}, status \in {"done", "missed"}}

NoUpdate == [kind |-> "none", text |-> <<>>]

\* Sunday 2026-12-27 22:00, every week: its missed check runs on Monday
AccessEntry == [weekday |-> 6, time |-> TimeStr(22, 0), week_type |-> "any"]

\* the user was created 5 or 9 days before the day of the workout and has no
\* subscription, or one that ends on that day or on the day after it
InitAccess ==
    \E back \in {TRIAL_DAYS, TRIAL_DAYS + 4}, ahead \in {-1, 0, 1},
       admin_ids \in {{}, {FireUser}} :
        LET workout_at == NextOccurrence(AccessEntry, StartOfLog)
            start == workout_at - LogLead
            created_at == isoformat(workout_at - back * MinutesPerDay)
            sub_ends == IF ahead < 0 THEN <<>>
                        ELSE DateText(workout_at + ahead * MinutesPerDay)
        IN  /\ schedules = {ScheduleCreate(FireUser, AccessEntry.weekday,
                                           AccessEntry.time, AccessEntry.week_type)}
            /\ offsets = [u \in UserIds |-> IF u = FireUser THEN 0 ELSE NoOffset]
            /\ jobs = schedule_user_jobs({}, FireUser,
                                         get_workout_schedule(schedules, FireUser), 0, 1)
            /\ handlers = [t \in Tasks |-> IdleTask]
            /\ started = 0
            /\ generation = 1
            /\ lastPlan = [NoPlan EXCEPT !.user_id = FireUser, !.gen = 1,
                               !.schedule = get_workout_schedule(schedules, FireUser)]
            /\ now = start
            /\ stopAt = start + MinutesPerDay
            /\ fired = {}
            /\ tasks = {}
            /\ logs = {}
            /\ sent = {}
            /\ presses = 0
            /\ answered = {}
            /\ calc = [op |-> "access", tg_id |-> FireUser, admin_ids |-> admin_ids,
                       user |-> <<UserRow(created_at, sub_ends)>>,
                       event |-> NoUpdate, outcome |-> "none", handler |-> "none",
                       at |-> start]

\* an update of the user goes through the middleware and, when it lets the
\* update on, to its handler: log_command and workout_callback run up to the
\* SELECT of upsert_workout_log, the other handlers write no schedule, log or
\* weight row
Deliver(event) ==
    /\ presses < MaxPresses
    /\ event \in Updates
    /\ LET outcome == AccessMiddleware(event, calc.tg_id, calc.user, calc.admin_ids, now)
           handler == IF outcome = "handler" THEN Route(event) ELSE "none"
           parts == SplitColon(event.text, 2)
       IN  /\ calc' = [calc EXCEPT !.event = event, !.outcome = outcome,
                                   !.handler = handler, !.at = now]
           /\ tasks' =
                 IF handler = "log_command"
                 THEN tasks \cup {Task("log", PressKey(presses + 1), "select", FireUser,
                                       now, isoformat(now), LogStatus(event.text))}
                 ELSE IF /\ handler = "workout_callback" /\ Len(parts) = 3
                         /\ parts[2] \in {<<"done">>, <<"missed">>}
                 THEN tasks \cup {Task("callback", PressKey(presses + 1), "select",
                                       FireUser, fromisoformat(parts[3]),
                                       isoformat(fromisoformat(parts[3])), parts[2][1])}
                 ELSE tasks
    /\ presses' = presses + 1
    /\ UNCHANGED <<jobs, schedules, offsets, handlers, started, generation, lastPlan,
                   stopAt, now, fired, logs, sent, answered>>

NextAccess ==
    \/ Tick
    \/ \E j \in jobs : FireReminder(j)
    \/ \E j \in jobs : FireConfirm(j)
    \/ \E j \in jobs : FireMissed(j)
    \/ \E k \in tasks : SweepExists(k)
    \/ \E k \in tasks : UpsertSelect(k)
    \/ \E k \in tasks : UpsertWrite(k)
    \/ \E k \in tasks : SweepNotify(k)
    \/ \E event \in Updates : Deliver(event)

SpecAccess == InitAccess /\ [][NextAccess]_vars

-----------------------------------------------------------------------------
(* services/payment.py: the payments of one user over the days. The user    *)
(* pays through the pay: button, the gateway changes the status of a        *)
(* payment, check_pending_payments runs every minute and                    *)
(* process_recurring_payments every day at 02:00. calc holds the tables     *)
(* payments and recurring_subscriptions and the column subscription_ends_at *)
(* of the user; now is the clock.                                           *)

BillingDays == 32
MaxPayments == 3
SUBSCRIPTION_MONTHS == 1

\* Monday 2026-11-02 02:00
StartOfBilling == StartOfReport + 2 * 60

\* subscription_end_after_months(now, months)
subscription_end_after_months(t, months) ==
    DateText(t + 30 * months * MinutesPerDay)

\* a row of table payments; remote and method are the status and the saved
\* payment method the gateway holds for the payment, found the day on which
\* the status 'succeeded' was stored, by_job whether
\* process_recurring_payments made the payment
PaymentRow(payment_id, status, payment_method_id, created, by_job) ==
    [payment_id |-> payment_id, user_id |-> FireUser, status |-> status,
     payment_method_id |-> payment_method_id, created |-> created,
     remote |-> status, method |-> payment_method_id,
     found |-> IF status = "succeeded" THEN <<created>> ELSE <<>>,
     by_job |-> by_job]

\* WHERE status IN ('pending', 'waiting_for_capture')
get_pending_payments(payments) ==
    {r \in payments : r.status \in {"pending", "waiting_for_capture"}}

\* WHERE user_id = ? AND is_active = 1
get_recurring_subscription(recurring, user_id) ==
    {r \in recurring : r.user_id = user_id /\ r.is_active}

\* WHERE is_active = 1 AND next_payment_date <= ?
get_recurring_subscriptions_due(recurring, date_iso) ==
    {r \in recurring : r.is_active /\ TextLeq(r.next_payment_date, date_iso)}

\* the tables after _process_successful_payment of the payment row at the
\* time t: the end of the subscription is set, the payment method stored,
\* and a recurring subscription created if the user has no active one
process_successful_payment(db, row, t) ==
    LET end_date == subscription_end_after_months(t, SUBSCRIPTION_MONTHS)
        stored == {IF r.payment_id = row.payment_id
                      /\ row.method # <<>> /\ row.payment_method_id = <<>>
                   THEN [r EXCEPT !.payment_method_id = row.method] ELSE r :
                       r \in db.payments}
        existing == get_recurring_subscription(db.recurring, row.user_id)
    IN  [db EXCEPT !.subscription_ends_at = end_date,
                   !.payments = stored,
                   !.recurring =
                       IF row.method # <<>> /\ existing = {}
                       THEN @ \cup {[id |-> Cardinality(@) + 1, user_id |-> row.user_id,
                                     payment_method_id |-> row.method,
                                     next_payment_date |-> DateText(t + 30 * MinutesPerDay),
                                     is_active |-> TRUE]}
                       ELSE @]

\* the loop of check_pending_payments over the rows it read, in the order of
\* their ids: a row whose status at the gateway differs is updated, and a
\* payment that succeeded is processed
RECURSIVE CheckRows(_, _, _)
CheckRows(db, rows, t) ==
    IF rows = {} THEN db
    ELSE LET row == CHOOSE r \in rows : \A q \in rows : r.payment_id <= q.payment_id
             updated == [db EXCEPT !.payments =
                            {IF r.payment_id = row.payment_id
                             THEN [r EXCEPT !.status = row.remote,
                                            !.found = IF row.remote = "succeeded"
                                                      THEN <<DayOf(t)>> ELSE @]
                             ELSE r : r \in db.payments}]
             after == IF row.remote = row.status THEN db
                      ELSE IF row.remote = "succeeded"
                           THEN process_successful_payment(updated, row, t)
                           ELSE updated
         IN  CheckRows(after, rows \ {row}, t)

\* the user was created nine days ago, has paid nothing, and the job of the
\* recurring payments has run today
InitBilling ==
    /\ now = StartOfBilling
    /\ stopAt = StartOfBilling + BillingDays * MinutesPerDay
    /\ calc = [op |-> "billing", ran |-> TRUE,
               created_at |-> isoformat(StartOfBilling - 9 * MinutesPerDay),
               subscription_ends_at |-> <<>>, payments |-> {}, recurring |-> {}]
    /\ schedules = {}
    /\ offsets = [u \in UserIds |-> NoOffset]
    /\ jobs = {}
    /\ handlers = [t \in Tasks |-> IdleTask]
    /\ started = 0
    /\ generation = 0
    /\ lastPlan = NoPlan
    /\ fired = {}
    /\ tasks = {}
    /\ logs = {}
    /\ sent = {}
    /\ presses = 0
    /\ answered = {}

BillingFrame ==
    UNCHANGED <<jobs, schedules, offsets, handlers, started, generation, lastPlan, stopAt,
                fired, tasks, logs, sent, presses, answered>>

\* pay_handler and create_payment_link: the first payment of the user, which
\* asks the gateway to save the payment method
pay_handler ==
    /\ calc.payments = {}
    /\ calc' = [calc EXCEPT !.payments =
                   {PaymentRow(1, "pending", <<>>, DayOf(now), FALSE)}]
    /\ UNCHANGED now
    /\ BillingFrame

\* the gateway: an open payment is paid, held for capture or canceled; it
\* saves the payment method of a payment that succeeds, or does not
Gateway(payment_id, status, method) ==
    /\ \E r \in calc.payments :
          /\ r.payment_id = payment_id
          /\ r.remote \in {"pending", "waiting_for_capture"}
          /\ r.remote # status
          /\ calc' = [calc EXCEPT !.payments =
                         (@ \ {r}) \cup
                             {[r EXCEPT !.remote = status,
                                        !.method = IF status = "succeeded" /\ @ = <<>>
                                                   THEN method ELSE @]}]
    /\ UNCHANGED now
    /\ BillingFrame

\* _check_pending_payments_job
check_pending_payments ==
    /\ get_pending_payments(calc.payments) # {}
    /\ LET db == CheckRows(calc, get_pending_payments(calc.payments), now)
       IN  calc' = db
    /\ UNCHANGED now
    /\ BillingFrame

\* _recurring_payments_job at 02:00 of a new day: process_recurring_payments
\* with the status the gateway gives the payment it creates, "error" when
\* create_recurring_payment raises
process_recurring_payments(status) ==
    /\ ~calc.ran
    /\ LET today == DateText(now)
           due == get_recurring_subscriptions_due(calc.recurring, today)
       IN  IF due = {} \/ status = "error" \/ Cardinality(calc.payments) >= MaxPayments
           THEN calc' = [calc EXCEPT !.ran = TRUE]
           ELSE LET sub == CHOOSE r \in due : TRUE
                    row == PaymentRow(Cardinality(calc.payments) + 1, status,
                                      <<sub.payment_method_id[1]>>, DayOf(now), TRUE)
                IN  calc' = [calc EXCEPT
                        !.ran = TRUE,
                        !.payments = @ \cup {row},
                        !.recurring =
                            IF status = "succeeded"
                            THEN {IF r.user_id = sub.user_id /\ r.is_active
                                  THEN [r EXCEPT !.next_payment_date =
                                                     DateText(now + 30 * MinutesPerDay)]
                                  ELSE r : r \in @}
                            ELSE IF status = "canceled"
                            THEN {IF r.user_id = sub.user_id
                                  THEN [r EXCEPT !.is_active = FALSE] ELSE r : r \in @}
                            ELSE @]
    /\ UNCHANGED now
    /\ BillingFrame

\* the next day, 02:00
NextDay ==
    /\ calc.ran
    /\ now + MinutesPerDay < stopAt
    /\ now' = now + MinutesPerDay
    /\ calc' = [calc EXCEPT !.ran = FALSE]
    /\ BillingFrame

GatewayStatuses == {"succeeded", "pending", "waiting_for_capture", "canceled"}

NextBilling ==
    \/ pay_handler
    \/ \E payment_id \in 1..MaxPayments, status \in GatewayStatuses \ {"pending"},
          method \in {<<>>, <<"pm">>} : Gateway(payment_id, status, method)
    \/ check_pending_payments
    \/ \E status \in GatewayStatuses \cup {"error"} : process_recurring_payments(status)
    \/ NextDay

SpecBilling == InitBilling /\ [][NextBilling]_vars

-----------------------------------------------------------------------------
(* Properties of re-planning *)

UserJobs(store, user_id) == {j \in store : StartsWith(j.id, UserPrefix(user_id))}

\* C1: after schedule_user_jobs(user, S) has returned, the installed ids that
\* carry the user's prefix are exactly the ids derived from S; no id of an
\* earlier plan of that user is left
C1_PlanIsExactlySchedule ==
    lastPlan.gen > 0 =>
        UserJobIds(jobs, lastPlan.user_id)
            = ScheduleIds(lastPlan.user_id, Range(lastPlan.schedule))

\* a re-plan that removed the jobs of an entry the new schedule no longer has
C1_Witness ==
    /\ lastPlan.gen > 1
    /\ lastPlan.removed > Cardinality(UserJobIds(jobs, lastPlan.user_id))
    /\ lastPlan.schedule # <<>>

\* C2: with reconfigurations of one user in flight at the same time, the
\* installed jobs of a user all come from one schedule_user_jobs call: no state
\* holds jobs of two generations of the same user
C2_SingleGeneration ==
    \A u \in UserIds : \A j1, j2 \in UserJobs(jobs, u) : j1.gen = j2.gen

\* two reconfigurations of the same user overlap: one has re-planned, the other
\* has passed its first await and has not re-planned yet
C2_Witness ==
    \E t \in Tasks :
        /\ handlers[t].pc = "replan"
        /\ lastPlan.gen > 0
        /\ lastPlan.user_id = handlers[t].user_id
        /\ UserJobs(jobs, handlers[t].user_id) # {}
        /\ Range(handlers[t].schedule) # Range(lastPlan.schedule)

\* C10: a schedule_user_jobs call that repeats the call before it (same user,
\* same schedule) leaves the ids it found, each installed once
C10_ReplanIdempotent ==
    [][\A t \in Tasks :
          (/\ Replan(t)
           /\ lastPlan.gen > 0
           /\ lastPlan.user_id = handlers[t].user_id
           /\ lastPlan.schedule = handlers[t].schedule)
          => /\ UserJobIds(jobs', handlers[t].user_id)
                    = UserJobIds(jobs, handlers[t].user_id)
             /\ Cardinality(UserJobs(jobs', handlers[t].user_id))
                    = Cardinality(UserJobIds(jobs', handlers[t].user_id))]_vars

\* a repeated call on a schedule that is not empty
C10_Witness ==
    /\ lastPlan.repeat
    /\ lastPlan.schedule # <<>>
    /\ lastPlan.removed > 0


-----------------------------------------------------------------------------
(* Properties of the triggers and the workout log *)

\* the occurrences of an entry from instant from to instant to
Occurrences(entry, from, to) ==
    LET first == NextOccurrence(entry, from)
    IN  {t \in {first + w * MinutesPerWeek : w \in 0..(HorizonDays \div 7 + 1)} :
             t <= to}

StoredEntries(user_id) == Range(get_workout_schedule(schedules, user_id))

\* the week-type of an entry allows the week of instant t, by the stored offset
Allowed(user_id, entry, t) == is_week_allowed(t, offsets[user_id], entry.week_type)

\* the log writes of the user for a date that have completed
UserWrites(user_id, date) == {a \in answered : a.user_id = user_id /\ a.date = date}

\* C3: when the sweep for T runs its existence check and a log entry for
\* (user, T) is there, the sweep ends at once: no row is changed or added, no
\* message is sent, and the sweep takes no further step.
C3_SweepIsNoOp ==
    [][\A k \in tasks :
          (SweepExists(k) /\ LogRows(logs, k.user_id, isoformat(k.workout_at)) # {})
              => /\ logs' = logs
                 /\ sent' = sent
                 /\ \A q \in tasks' : q.key # k.key]_vars

\* a sweep is about to run its check while the user's 'done' for the same
\* workout is in the log
C3_Witness ==
    \E k \in tasks :
        /\ k.kind = "sweep"
        /\ k.pc = "exists"
        /\ \E r \in LogRows(logs, k.user_id, isoformat(k.workout_at)) : r.status = "done"
        /\ \E a \in answered : a.kind = "callback" /\ a.date = k.date /\ a.at < now

\* C4: once the user's 'done' for T and the sweep for T have both finished, and
\* the user wrote nothing but 'done' for T, every status stored for (user, T)
\* is 'done'.
C4_DoneSurvivesSweep ==
    \A a \in answered :
        (/\ a.kind = "callback"
         /\ tasks = {}
         /\ \E j \in jobs : j.func = "_missed_job" /\ j.id \in fired
         /\ \A b \in UserWrites(a.user_id, a.date) : b.status = "done")
            => \A r \in LogRows(logs, a.user_id, a.date) : r.status = "done"

\* C5: the log holds at most one row per (user, date).
C5_OneRowPerTimestamp ==
    \A r1, r2 \in logs :
        (r1.user_id = r2.user_id /\ r1.date = r2.date) => r1.id = r2.id

\* the missed check of occurrence t of an entry has fired and its sweep has
\* written what it writes
SweepWritten(user_id, entry, t) ==
    \/ t + MissedDelay < now
    \/ /\ t + MissedDelay = now
       /\ MissedId(user_id, entry) \in fired
       /\ \A k \in tasks : k.key = MissedId(user_id, entry) => k.pc = "notify"

\* C6: with nobody answering, every occurrence of a stored entry in a week its
\* week-type allows has a 'missed' row for the occurrence's timestamp once the
\* missed check, 3 hours later, has run; once no sweep for the occurrence is
\* under way the user has been told.
C6_MissedRecorded ==
    \A e \in StoredEntries(FireUser) :
        \A t \in Occurrences(e, StartOfRun, now) :
            (Allowed(FireUser, e, t) /\ SweepWritten(FireUser, e, t))
                => /\ \E r \in LogRows(logs, FireUser, isoformat(t)) : r.status = "missed"
                   /\ (\A k \in tasks : k.workout_at # t)
                          => \E m \in sent : m.kind = "missed" /\ m.workout_at = t

\* a 'missed' row for a 22:00 workout, written after midnight
C6_Witness ==
    \E e \in StoredEntries(FireUser) :
        \E t \in Occurrences(e, StartOfRun, now) :
            /\ e.week_type # "any"
            /\ DayOf(t + MissedDelay) # DayOf(t)
            /\ now = t + MissedDelay
            /\ \E r \in LogRows(logs, FireUser, isoformat(t)) : r.status = "missed"

\* the occurrence a job that fires now is about: the next one for a reminder,
\* the last one for the prompt and for the missed check
OccurrenceOf(j) ==
    IF j.func = "_reminder_job" THEN NextOccurrence(j.entry, now)
    ELSE PrevOccurrence(j.entry, now)

\* C7: a job that has fired at this instant has acted (a reminder or a prompt
\* sent, a sweep started) exactly when the week of its occurrence is allowed,
\* and what it did carries that occurrence; every row of the log is for an
\* allowed occurrence of a stored entry.
C7_OccurrenceWeekDecides ==
    /\ \A j \in jobs : (UserJob(j) /\ j.id \in fired) =>
          LET t == OccurrenceOf(j)
              messages == {m \in sent : m.at = now /\ m.job = j.id}
              sweeps == {k \in tasks : k.key = j.id}
          IN  /\ \A m \in messages : m.workout_at = t
              /\ \A k \in sweeps : k.workout_at = t /\ k.date = isoformat(t)
              /\ ~Allowed(j.user_id, j.entry, t) => (messages = {} /\ sweeps = {})
              /\ (Allowed(j.user_id, j.entry, t) /\ j.func # "_missed_job")
                     => messages # {}
              /\ (Allowed(j.user_id, j.entry, t) /\ j.func = "_missed_job")
                     => (sweeps # {} \/ LogRows(logs, j.user_id, isoformat(t)) # {})
    /\ \A r \in logs :
          LET t == fromisoformat(r.date)
          IN  /\ r.date = isoformat(t)
              /\ \E e \in StoredEntries(r.user_id) :
                     t \in Occurrences(e, StartOfRun, now) /\ Allowed(r.user_id, e, t)

\* a 24h reminder sent on a Sunday for a Monday whose week is allowed while
\* the week of the Sunday is not
C7_Witness ==
    \E j \in jobs :
        /\ j.id \in fired
        /\ j.func = "_reminder_job"
        /\ j.hours_before = 24
        /\ Weekday(now) = 6
        /\ ~Allowed(j.user_id, j.entry, now)
        /\ \E m \in sent : m.job = j.id /\ m.at = now /\ Weekday(m.workout_at) = 0

JobOf(id) == CHOOSE j \in jobs : j.id = id

\* C8: a sweep under way looks up the timestamp that the prompt of the same
\* entry, sent 3 hours earlier, carried in its buttons, and every answer the
\* user gave through a prompt is stored under the timestamp the sweep looks up.
C8_SweepLooksUpPromptTimestamp ==
    \A k \in tasks : k.kind = "sweep" =>
        LET prompts == {m \in sent : /\ m.kind = "prompt"
                                     /\ m.job = ConfirmId(k.user_id, JobOf(k.key).entry)
                                     /\ m.at = now - MissedDelay}
        IN  /\ prompts # {}
            /\ \A m \in prompts :
                  /\ m.workout_at = k.workout_at
                  /\ \A status \in {"done", "missed"} :
                        LET parts == SplitColon(ButtonData(status, m.data), 2)
                        IN  isoformat(fromisoformat(parts[3])) = k.date
            /\ \A a \in answered : a.kind = "callback" => a.date = k.date

\* the sweep of a 22:00 workout runs on the next calendar day and the user
\* has answered the prompt
C8_Witness ==
    \E k \in tasks :
        /\ k.kind = "sweep"
        /\ DayOf(now) # DayOf(k.workout_at)
        /\ MinuteOfDay(k.workout_at) >= 21 * 60
        /\ \E a \in answered : a.kind = "callback" /\ a.date = k.date

\* the place of a message among the eight triggers of an occurrence
Stage(m) ==
    IF m.kind = "reminder" THEN 0 - m.hours_before
    ELSE IF m.kind = "prompt" THEN 0 ELSE 1

Stages == {0 - reminder_times[i][2] : i \in DOMAIN reminder_times} \cup {0, 1}

\* C9 (as amended): with nobody answering, every message is about an
\* occurrence of the entry of its job; the messages of one entry about one
\* occurrence are sent at strictly increasing instants in the order reminder
\* 24h, 12h, 6h, 3h, 2h, 1h, prompt, missed notice; and an occurrence whose
\* missed notice is out has had all eight of them.
C9_OccurrenceTriggersInOrder ==
    /\ \A e \in StoredEntries(FireUser) :
          LET slot == EntrySlot(e)
          IN  \A m \in sent :
                  JobOf(m.job).entry = e => m.workout_at % MinutesPerWeek = slot
    /\ \A m1, m2 \in sent :
          (/\ m1.workout_at = m2.workout_at
           /\ Stage(m1) < Stage(m2)
           /\ JobOf(m1.job).entry = JobOf(m2.job).entry) => m1.at < m2.at
    /\ \A m \in sent :
          (m.kind = "missed" /\ m.workout_at - 24 * 60 >= StartOfRun) =>
              \A st \in Stages :
                  \E m2 \in sent : /\ m2.workout_at = m.workout_at
                                   /\ Stage(m2) = st
                                   /\ JobOf(m2.job).entry = JobOf(m.job).entry

\* all eight messages of an occurrence of an entry restricted to a week-type
\* have been sent
C9_Witness ==
    \E m \in sent :
        /\ m.kind = "missed"
        /\ JobOf(m.job).entry.week_type # "any"
        /\ Cardinality({m2 \in sent : /\ JobOf(m2.job).entry = JobOf(m.job).entry
                                      /\ m2.workout_at = m.workout_at}) = 8

\* C9 (as stated): no two jobs of one user are due at the same instant.
C9_NeverDueTogether ==
    \A j1, j2 \in jobs :
        (/\ UserJob(j1) /\ UserJob(j2)
         /\ j1.user_id = j2.user_id
         /\ Due(j1.trigger, now) /\ Due(j2.trigger, now)) => j1.id = j2.id

-----------------------------------------------------------------------------
(* Properties of the planner and of the schedule handlers *)

\* the jobs of a user planned for one entry
EntryJobs(store, user_id, entry) == {j \in UserJobs(store, user_id) : j.entry = entry}

\* C11: after a schedule_user_jobs call the user has eight jobs per entry of
\* the schedule passed, all under different ids: reminders with leads 24, 12,
\* 6, 3, 2 and 1 hours, one confirmation, one missed check.
C11_EightTriggersPerEntry ==
    lastPlan.gen > 0 =>
        LET J == UserJobs(jobs, lastPlan.user_id)
        IN  /\ Cardinality(J) = 8 * Len(lastPlan.schedule)
            /\ Cardinality({j.id : j \in J}) = Cardinality(J)
            /\ \A e \in Range(lastPlan.schedule) :
                  LET Je == EntryJobs(jobs, lastPlan.user_id, e)
                  IN  /\ Cardinality(Je) = 8
                      /\ {j.hours_before : j \in {q \in Je : q.func = "_reminder_job"}}
                             = {24, 12, 6, 3, 2, 1}
                      /\ Cardinality({q \in Je : q.func = "_reminder_job"}) = 6
                      /\ Cardinality({q \in Je : q.func = "_confirmation_job"}) = 1
                      /\ Cardinality({q \in Je : q.func = "_missed_job"}) = 1

\* a plan of a schedule with several entries, two of them at the same weekday
\* and time
C11_Witness ==
    /\ lastPlan.gen > 0
    /\ Len(lastPlan.schedule) >= 3
    /\ \E e1, e2 \in Range(lastPlan.schedule) :
          e1 # e2 /\ e1.weekday = e2.weekday /\ e1.time = e2.time
    /\ Cardinality(UserJobs(jobs, lastPlan.user_id)) = 8 * Len(lastPlan.schedule)

\* the stored rows of a user and week type, and all other rows
RowsOf(table, user_id, week_type) ==
    {r \in table : r.user_id = user_id /\ r.week_type = week_type}

RowsOutside(table, user_id, week_type) == table \ RowsOf(table, user_id, week_type)

\* C12: when a reconfiguration of week type W for a user completes, the
\* stored entries of (user, W) are exactly the submitted ones, and no step of
\* the reconfiguration changes a stored entry of another week type or user.
C12_ReplacesExactlyWeekType ==
    [][\A t \in Tasks :
          LET h == handlers[t]
          IN  /\ Replan(t) =>
                    RowsOf(schedules', h.user_id, h.week_type) = Range(h.payload)
              /\ (DeleteOld(t) \/ InsertEntry(t)) =>
                    RowsOutside(schedules', h.user_id, h.week_type)
                        = RowsOutside(schedules, h.user_id, h.week_type)]_vars

\* a step of the handler task t
TaskStep(t) ==
    UpdateOffset(t) \/ DeleteOld(t) \/ InsertEntry(t) \/ ReadSchedule(t) \/ Replan(t)

\* the entries the handler was given do not all pass ScheduleCreate
Rejected(h) ==
    h.pc # "idle" /\ \E d \in Range(h.days) : ~ScheduleValid(d, h.time_str, h.week_type)

\* C13: a reconfiguration with an entry that fails validation (a time text
\* that does not parse, a weekday outside 0..6) writes nothing: no step of
\* it changes the stored entries, the stored offsets or the installed jobs.
C13_RejectedBeforeWrite ==
    [][/\ (started' # started /\ handlers' = handlers) =>
              (schedules' = schedules /\ offsets' = offsets /\ jobs' = jobs)
       /\ \A t \in Tasks :
              (Rejected(handlers[t]) /\ TaskStep(t)) =>
                  (schedules' = schedules /\ offsets' = offsets /\ jobs' = jobs)]_vars

\* the even and odd entries stored for a user apply in the week of a moment
\* under one offset as under the other
SameWeeks(table, user_id, moment, offset1, offset2) ==
    \A r \in RowsOf(table, user_id, "even") \cup RowsOf(table, user_id, "odd") :
        is_week_allowed(moment, offset1, r.week_type)
            = is_week_allowed(moment, offset2, r.week_type)

\* C14: the stored offset of a user changes only in a reconfiguration of an
\* even or odd schedule; a reconfiguration of the 'any' schedule leaves the
\* stored offset as it was, and with it the weeks in which the stored even
\* and odd entries apply.
C14_AnyKeepsOffset ==
    [][/\ \A u \in UserIds :
              offsets'[u] # offsets[u] =>
                  \E t \in Tasks : /\ UpdateOffset(t)
                                    /\ handlers[t].user_id = u
                                    /\ handlers[t].week_type \in {"even", "odd"}
       /\ \A t \in Tasks :
              LET h == handlers[t]
              IN  (h.week_type = "any" /\ TaskStep(t)) =>
                      /\ offsets' = offsets
                      /\ SameWeeks(schedules, h.user_id, now,
                                   offsets[h.user_id], offsets'[h.user_id])]_vars

-----------------------------------------------------------------------------
(* Properties of the week parity and of the count of scheduled workouts *)

\* C15: under a fixed offset the parity of the user's week seven days later
\* is the opposite of the parity of the week, for every date, across the
\* turn of the year too.
C15_ParityFlipsEveryWeek ==
    (calc.op = "shown" /\ calc.weeks > 0) => calc.user_even = ~calc.was_even

\* C16: the offset computed from a reference moment and the user's answer is
\* 0 or 1 and gives the answer back at that moment: the user's week is even
\* exactly if the user said so, an entry of the week type said applies and an
\* entry of the other week type does not.
C16_OffsetReproducesClaim ==
    /\ calc.op # "asked" => calc.offset \in {0, 1}
    /\ (calc.op = "shown" /\ calc.weeks = 0) =>
          /\ calc.target = calc.reference
          /\ calc.user_even = calc.is_even_week
          /\ calc.allowed_even = calc.is_even_week
          /\ calc.allowed_odd = ~calc.is_even_week

\* an answer "even" given in ISO week 53, which gives offset 1
C16_Witness ==
    /\ calc.op = "shown" /\ calc.weeks = 0 /\ calc.offset = 1
    /\ calc.is_even_week
    /\ IsoWeek(calc.reference) = 53

\* the pairs of a calendar date of the range and an entry of that weekday
\* that applies in the week of the date
CountedPairs(c) ==
    IF c.start > c.end THEN {}
    ELSE {p \in (DayOf(c.start)..DayOf(c.end)) \X DOMAIN c.schedule :
             /\ c.schedule[p[2]].weekday = Weekday(p[1] * MinutesPerDay)
             /\ is_week_allowed(p[1] * MinutesPerDay, c.week_parity_offset,
                                c.schedule[p[2]].week_type)}

\* the number of days from the date of start to the date of end
Span(c) == DayOf(c.end) - DayOf(c.start)

\* C17: the count is the number of pairs of a calendar date in the range
\* and an entry of the date's weekday that applies in the date's week; one
\* 'any' entry counts once over seven consecutive days.
C17_CountIsNumberOfPairs ==
    calc.op = "counted" =>
        /\ calc.scheduled = Cardinality(CountedPairs(calc))
        /\ (/\ Len(calc.schedule) = 1
            /\ calc.schedule[1].week_type = "any"
            /\ calc.start <= calc.end
            /\ Span(calc) = 6) => calc.scheduled = 1

\* a count of an 'any' entry and an odd entry over two weeks
C17_Witness ==
    /\ calc.op = "counted"
    /\ Len(calc.schedule) = 2
    /\ calc.schedule[1].week_type = "any" /\ calc.schedule[2].week_type = "odd"
    /\ Span(calc) = 13
    /\ calc.scheduled = 3

\* the schedule is an even and an odd entry of one weekday
EvenAndOdd(schedule) ==
    /\ Len(schedule) = 2
    /\ schedule[1].weekday = schedule[2].weekday
    /\ {schedule[1].week_type, schedule[2].week_type} = {"even", "odd"}

\* C18: with an even and an odd entry on one weekday, each date of that
\* weekday in the range counts once, whatever the offset: the count is the
\* number of those dates, and it is 2 over 14 consecutive days.
C18_EvenOrOddEachWeek ==
    (calc.op = "counted" /\ EvenAndOdd(calc.schedule) /\ calc.start <= calc.end) =>
        /\ calc.scheduled
              = Cardinality({d \in DayOf(calc.start)..DayOf(calc.end) :
                                Weekday(d * MinutesPerDay) = calc.schedule[1].weekday})
        /\ Span(calc) = 13 => calc.scheduled = 2

\* 14 days over the turn of the year, under offset 1
C18_Witness ==
    /\ calc.op = "counted" /\ EvenAndOdd(calc.schedule)
    /\ calc.start <= calc.end /\ Span(calc) = 13
    /\ calc.week_parity_offset = 1
    /\ IsoWeek(calc.start) = 53
    /\ calc.scheduled = 2

\* C19: the count over a range is at least the count over the range it was
\* widened from, and the count is 0 when start is after end.
C19_CountGrowsWithRange ==
    calc.op = "counted" =>
        /\ calc.narrower <= calc.scheduled
        /\ calc.start > calc.end => calc.scheduled = 0

\* a range of more than a week that counts more than the range it was
\* widened from
C19_Witness ==
    /\ calc.op = "counted"
    /\ calc.narrower > 0 /\ calc.narrower < calc.scheduled
    /\ Span(calc) >= 7

-----------------------------------------------------------------------------
(* Properties of the triggers of an entry *)

\* the shift of a job from the time of its entry, in minutes: the lead of a
\* reminder, nothing for the prompt, three hours for the missed check
Shift(j) ==
    IF j.func = "_reminder_job" THEN 0 - 60 * j.hours_before
    ELSE IF j.func = "_missed_job" THEN 180
    ELSE 0

\* weekday, hour and minute of an entry time shifted by at most a day: the
\* previous weekday when the shifted time of day is before midnight (Sunday
\* for a Monday entry), the next when it reaches the next midnight (Monday
\* for a Sunday entry)
Shifted(weekday, hour, minute, shift) ==
    LET m == hour * 60 + minute + shift
    IN  IF m < 0
        THEN <<IF weekday = 0 THEN 6 ELSE weekday - 1, (m + 1440) \div 60, (m + 1440) % 60>>
        ELSE IF m >= 1440
        THEN <<IF weekday = 6 THEN 0 ELSE weekday + 1, (m - 1440) \div 60, (m - 1440) % 60>>
        ELSE <<weekday, m \div 60, m % 60>>

\* C20: each trigger of an entry fires at the entry's weekday, hour and minute
\* shifted by the trigger's delta (24, 12, 6, 3, 2, 1 hours before, at the
\* time, 3 hours after), rolling onto the previous or next weekday over
\* midnight and around the week from Monday to Sunday and back.
C20_TriggerShiftWraps ==
    \A j \in UserJobs(jobs, FireUser) :
        LET hm == _parse_time(j.entry.time)
            at == Shifted(j.entry.weekday, hm[1], hm[2], Shift(j))
        IN  /\ j.trigger.day_of_week = at[1]
            /\ j.trigger.hour = at[2]
            /\ j.trigger.minute = at[3]
            /\ j.trigger.day = Unrestricted

\* the jobs of a Monday 01:00 entry, its 24-hour reminder at Sunday 01:00
C20_Witness ==
    \E j \in UserJobs(jobs, FireUser) :
        /\ j.entry.weekday = 0 /\ j.entry.time = TimeStr(1, 0)
        /\ j.func = "_reminder_job" /\ j.hours_before = 24
        /\ j.trigger.day_of_week = 6 /\ j.trigger.hour = 1 /\ j.trigger.minute = 0

-----------------------------------------------------------------------------
(* Properties of the stores *)

\* C21: when a call of upsert_workout_log has finished, the rows of other
\* users and timestamps are as the call found them; when the call before it
\* was for the same user and timestamp, there is exactly one row for them and
\* its status, duration and notes are those of the later call.
C21_SecondUpsertOverwrites ==
    (calc.pc = "idle" /\ calc.calls > 0) =>
        LET log == calc.log
            rows == LogRows(logs, log.user_id, log.date)
        IN  /\ logs \ rows = calc.before \ LogRows(calc.before, log.user_id, log.date)
            /\ (calc.earlier.user_id = log.user_id /\ calc.earlier.date = log.date) =>
                  /\ Cardinality(rows) = 1
                  /\ \A r \in rows : /\ r.status = log.status
                                      /\ r.duration = log.duration
                                      /\ r.notes = log.notes

\* two calls for one user and timestamp, the later with other status,
\* duration and notes, on a log that holds a row of another user
C21_Witness ==
    /\ calc.pc = "idle"
    /\ calc.calls = 3
    /\ calc.earlier.user_id = calc.log.user_id /\ calc.earlier.date = calc.log.date
    /\ calc.earlier.status = "done" /\ calc.earlier.duration = 45
    /\ calc.log.status = "missed" /\ calc.log.duration = None
    /\ \E r \in logs : r.user_id # calc.log.user_id
    /\ Cardinality(LogRows(logs, calc.log.user_id, calc.log.date)) = 1

\* C22: no two rows of the schedule table hold the same user, weekday, time
\* and week type; an insert of a stored tuple completes and leaves the table
\* as it found it.
C22_UniqueScheduleTuples ==
    /\ \A r \in schedules : SameTuple(schedules, r) = {r}
    /\ (calc.inserted # NoCall /\ calc.found) => schedules = calc.before
    /\ calc.inserted # NoCall => SameTuple(schedules, calc.inserted) # {}

\* an insert of a tuple that was stored, into a table of several rows
C22_Witness ==
    /\ calc.inserted # NoCall
    /\ calc.found
    /\ Cardinality(schedules) >= 2
    /\ Cardinality(SameTuple(schedules, calc.inserted)) = 1

\* no reconfiguration is in flight
Completed == \A t \in Tasks : handlers[t].pc = "idle"

\* C23: when a reconfiguration that was given the week type, days and time
\* of the one completed before it completes, the stored entries and the job
\* ids of the user are those the one before it left.
C23_SameReconfigurationTwice ==
    (Completed /\ started >= 2 /\ calc.input = calc.earlier) =>
        /\ schedules = calc.entries
        /\ UserJobIds(jobs, FireUser) = calc.ids

\* an even schedule of two days completed twice, with entries of another
\* week type and of another user stored
C23_Witness ==
    /\ Completed /\ started >= 2
    /\ calc.input = calc.earlier
    /\ calc.input.week_type = "even" /\ Len(calc.input.days) = 2
    /\ Cardinality(RowsOf(schedules, FireUser, "even")) = 2
    /\ RowsOf(schedules, FireUser, "any") # {}
    /\ lastPlan.gen = 4 /\ lastPlan.removed = 24

\* C24: once a step of the wizard has run on a session that lost its
\* user_id, its days or (at the parity step) its times, the state of the
\* wizard is cleared, the session-reset message is sent, and the stored
\* entries, the stored offsets and the installed jobs are as they were.
C24_LostSessionResets ==
    (calc.lost # "none" /\ calc.handled) =>
        /\ calc.state = "cleared"
        /\ calc.reset
        /\ schedules = calc.schedules
        /\ offsets = calc.offsets
        /\ jobs = calc.jobs

-----------------------------------------------------------------------------
(* Properties of the jobs when a delivery fails *)

\* the jobs of a function that have ended
Ended(func) == {r \in calc.finished : r.func = func}

\* C25: a trigger job and the weekly weight job return normally whoever
\* blocked the bot; a trigger job that has ended delivered its message unless
\* its user blocked the bot (the missed check: unless the workout was logged),
\* the weekly job that has ended delivered the prompt to every user who did
\* not block the bot, and a missed check that has ended leaves a log of the
\* workout, written or found, whether or not its notification failed.
C25_DeliveryFailureContained ==
    /\ \A r \in calc.finished :
          r.func \in TriggerFuncs \cup {"_weekly_weight_job"} => r.outcome = "returned"
    /\ \A r \in Ended("_reminder_job") :
          r.user_id \notin calc.blocked => Delivered("reminder", r.user_id) \in calc.delivered
    /\ \A r \in Ended("_confirmation_job") :
          r.user_id \notin calc.blocked => Delivered("prompt", r.user_id) \in calc.delivered
    /\ \A r \in Ended("_missed_job") :
          /\ LogRows(logs, r.user_id, DeliverDate) # {}
          /\ (r.user_id \notin calc.blocked
                /\ \E l \in LogRows(logs, r.user_id, DeliverDate) :
                       l.status = "missed") =>
                   Delivered("missed", r.user_id) \in calc.delivered
    /\ \A r \in Ended("_weekly_weight_job") :
          \A u \in UserIds \ calc.blocked : Delivered("weight", u) \in calc.delivered

\* every job has ended; the first user blocked the bot and comes first in the
\* list of users, the missed check of the first user wrote its log, and the
\* other user received all messages of the triggers and the weekly prompt
C25_Witness ==
    /\ calc.pending = {} /\ calc.run = NoRun
    /\ calc.blocked = {FireUser}
    /\ calc.users = <<FireUser, OtherUser>>
    /\ \E l \in logs : l.user_id = FireUser /\ l.status = "missed"
    /\ \A kind \in {"reminder", "prompt", "missed", "weight"} :
          Delivered(kind, OtherUser) \in calc.delivered

\* C26: when the monthly report job has ended, every user who did not block
\* the bot has received the report.
C26_ReportReachesOtherUsers ==
    \A r \in Ended("_monthly_report_job") :
        \A u \in UserIds \ calc.blocked : Delivered("report", u) \in calc.delivered

-----------------------------------------------------------------------------
(* Properties of the report figures *)

\* C27: the score is 0 when the scheduled count is 0 or less, whatever the
\* completed count; otherwise it is a hundredth nearest to
\* completed / scheduled * 100 (no other hundredth is nearer), and 3 of 10
\* gives 30.00.
C27_ScoreIsRoundedRatio ==
    calc.called =>
        IF calc.scheduled <= 0 THEN calc.score = 0
        ELSE LET exact == calc.completed * 10000
                 got == calc.score * calc.scheduled
                 off == IF got >= exact THEN got - exact ELSE exact - got
             IN  /\ 2 * off <= calc.scheduled
                 /\ (calc.completed = 3 /\ calc.scheduled = 10) => calc.score = 3000

\* 2 of 3 gives 66.67
C27_Witness == calc.called /\ calc.completed = 2 /\ calc.scheduled = 3 /\ calc.score = 6667

\* the moment an entry was made at
EnteredAt(e) == Moments[CHOOSE i \in DOMAIN Moments : MomentDates[i] = e.date]

\* the entries of the user of the report at or after the first minute and at
\* or before the last minute of the month of the report
InRange(r) ==
    LET first_minute == fromisoformat(r.start)
        last_minute == fromisoformat(r.end)
    IN  {e \in calc.table :
            /\ e.user_id = r.user_id
            /\ EnteredAt(e) >= first_minute
            /\ EnteredAt(e) <= last_minute}

\* C28: in a report, start_weight and end_weight are the weights of the
\* earliest and of the latest entry of the user inside the range, diff is
\* their difference and diff_percent a hundredth nearest to
\* diff / start_weight * 100; diff and diff_percent are None exactly when no
\* entry of the user is inside the range; 80.0 and 78.5 give -1.50 and -1.88.
C28_WeightDeltaOfRange ==
    calc.report # NoReport =>
        LET r == calc.report
            rows == InRange(r)
        IN  /\ r.diff = <<>> <=> rows = {}
            /\ r.diff_percent = <<>> <=> rows = {}
            /\ rows # {} =>
                  LET first == CHOOSE e \in rows : \A q \in rows :
                                   EnteredAt(e) <= EnteredAt(q)
                      last == CHOOSE e \in rows : \A q \in rows :
                                   EnteredAt(q) <= EnteredAt(e)
                      exact == r.diff[1] * 10000
                      got == r.diff_percent[1] * first.weight * 10
                      off == IF got >= exact THEN got - exact ELSE exact - got
                  IN  /\ r.start_weight = <<first.weight>>
                      /\ r.end_weight = <<last.weight>>
                      /\ r.diff = <<(last.weight - first.weight) * 10>>
                      /\ 2 * off <= first.weight * 10
                      /\ (first.weight = 800 /\ last.weight = 785) =>
                             (r.diff = <<0 - 150>> /\ r.diff_percent = <<0 - 188>>)

\* the report of October for a user with an entry before the month, 80.0 at
\* its first minute and 78.5 at its last
C28_Witness ==
    /\ calc.report # NoReport
    /\ Cardinality(InRange(calc.report)) = 2
    /\ \E e \in calc.table : e.user_id = calc.report.user_id /\ e.date = MomentDates[1]
    /\ \E e \in calc.table : e.date = MomentDates[2] /\ e.weight = 800
    /\ \E e \in calc.table : e.date = MomentDates[5] /\ e.weight = 785
    /\ calc.report.diff = <<0 - 150>>
    /\ calc.report.diff_percent = <<0 - 188>>

-----------------------------------------------------------------------------
(* Properties of a re-plan towards the other users *)

\* the jobs of the store that are not jobs of the user: those of the other
\* users and the global ones
JobsOfOthers(store, user_id) == {j \in store : j.user_id # user_id}

\* C29: a re-plan of a user leaves every job of every other user and every
\* global job as it was: installed after it iff installed before it.
C29_ReplanKeepsOthers ==
    [][\A t \in Tasks :
          Replan(t) => JobsOfOthers(jobs', handlers[t].user_id)
                           = JobsOfOthers(jobs, handlers[t].user_id)]_vars

\* user 1 has been re-planned, jobs of user 1 were removed, and the jobs of
\* user 11 and the four global jobs are installed
C29_Witness ==
    /\ lastPlan.user_id = FireUser
    /\ lastPlan.gen > 2
    /\ lastPlan.removed > 0
    /\ OtherUser = 11 /\ FireUser = 1
    /\ Cardinality(UserJobs(jobs, OtherUser)) = 8
    /\ Cardinality({j \in jobs : j.user_id = 0}) = 4

-----------------------------------------------------------------------------
(* Properties of the offset of the installed jobs *)

\* C30: when a reconfiguration of a sequence has completed, every installed
\* job of the user carries the offset stored for the user, and so lets an
\* 'even' workout of the current week through exactly when the stored offset,
\* which the reports read, makes the current week even.
C30_JobsCarryStoredOffset ==
    (Completed /\ started >= 1) =>
        \A j \in UserJobs(jobs, FireUser) :
            /\ j.week_parity_offset = offsets[FireUser]
            /\ is_week_allowed(now, j.week_parity_offset, "even")
                   = is_user_week_even(now, offsets[FireUser])

\* an 'any' reconfiguration completed after an 'even' one: the stored offset
\* is 0 and the jobs of the even entries are installed with it
C30_Witness ==
    /\ Completed /\ started >= 2
    /\ calc.earlier.week_type = "even"
    /\ calc.input.week_type = "any"
    /\ offsets[FireUser] = 0
    /\ \E j \in UserJobs(jobs, FireUser) : j.week_type = "even" /\ j.week_parity_offset = 0
    /\ \E j \in UserJobs(jobs, FireUser) : j.week_type = "any"

-----------------------------------------------------------------------------
(* Properties of reconfigurations that overlap *)

\* C31: once the reconfigurations in flight at the same time have all
\* finished, the job ids installed for a user are the ids derived from the
\* entries stored for the user at that moment, and every job of the user
\* carries the stored offset of the user.
C31_OverlapEndsConsistent ==
    (Completed /\ started >= 2) =>
        \A u \in UserIds :
            /\ UserJobIds(jobs, u) = ScheduleIds(u, UserEntries(schedules, u))
            /\ \A j \in UserJobs(jobs, u) : j.week_parity_offset = offsets[u]

-----------------------------------------------------------------------------
(* Properties of the runs of the schedule wizard *)

\* the entries a completing run selected: one per selected day, with the
\* day's own time after the per-day steps (time_str is then the marker
\* "multiple") and with the single time otherwise
Selected(h) ==
    {ScheduleCreate(h.user_id, d,
                    IF h.time_str = <<"multiple">> THEN h.day_times[d] ELSE h.time_str,
                    h.week_type) : d \in Range(h.days)}

\* C32: when a run of the wizard completes for a week type, the stored
\* entries of that week type are one entry per selected day, with the single
\* time entered or the day's own time, whatever runs were left before it.
C32_WizardStoresSelection ==
    [][FinishWizard =>
          RowsOf(schedules', handlers[SeqTask].user_id, handlers[SeqTask].week_type)
              = Selected(handlers[SeqTask])]_vars

\* the states of ScheduleStates, and those after the days are chosen
ScheduleStates == {"waiting_mode", "waiting_days", "waiting_time_mode", "waiting_time",
                   "waiting_day_time", "waiting_week_parity"}

AfterDays == ScheduleStates \ {"waiting_mode", "waiting_days"}

\* C33: while a run of the wizard waits in one of its states, the stored
\* entries, the stored offsets and the installed jobs are those the /schedule
\* command found, and no handler that writes is in flight; the wizard is past
\* waiting_days only with a day selected.
C33_NoWriteBeforeLastStep ==
    /\ calc.state \in ScheduleStates =>
           /\ schedules = calc.schedules
           /\ offsets = calc.offsets
           /\ jobs = calc.jobs
           /\ Completed
    /\ calc.state \in AfterDays => calc.days # <<>>

\* a second run waits for the parity answer with a time entered, after a run
\* that saved, and the offset the answer would write is not the stored one
C33_Witness ==
    /\ calc.state = "waiting_week_parity"
    /\ calc.runs = 2
    /\ calc.time_str # <<>>
    /\ generation > 2
    /\ schedules # {EditEven, EditAny, OtherAny}
    /\ \E parity \in EditParities :
          compute_week_parity_offset(now, parity = "even") # offsets[FireUser]

-----------------------------------------------------------------------------
(* Properties of the plan at process start *)

\* C34: after load_all_schedules, the job ids installed for each user are
\* the ids derived from the stored entries of the user, eight jobs for each
\* entry and none for a user without entries, and every job of a user whose
\* stored offset is unset carries offset 0, any other the stored offset.
C34_LoadInstallsStored ==
    calc.pc = "done" =>
        \A u \in UserIds :
            /\ UserJobIds(jobs, u) = ScheduleIds(u, UserEntries(schedules, u))
            /\ Cardinality(UserJobs(jobs, u)) = 8 * Cardinality(UserEntries(schedules, u))
            /\ UserEntries(schedules, u) = {} => UserJobs(jobs, u) = {}
            /\ \A j \in UserJobs(jobs, u) :
                   j.week_parity_offset = IF offsets[u] = NoOffset THEN 0 ELSE offsets[u]

\* a user with an unset offset and entries of both week types, and a user
\* without entries, the user with entries loaded first
C34_Witness ==
    /\ calc.pc = "done"
    /\ \E u, v \in UserIds :
          /\ offsets[u] = NoOffset
          /\ Cardinality(UserEntries(schedules, u)) = MaxStored
          /\ UserEntries(schedules, v) = {}
          /\ lastPlan.user_id = v
          /\ Cardinality(UserJobs(jobs, u)) = 8 * MaxStored

-----------------------------------------------------------------------------
(* Properties of the missed check towards manual log entries *)

\* the user has written, or is writing, a log entry for the timestamp t
WritesFor(user_id, t) ==
    \/ UserWrites(user_id, isoformat(t)) # {}
    \/ \E k \in tasks : k.kind # "sweep" /\ k.user_id = user_id /\ k.date = isoformat(t)

\* C35: when the missed check of an allowed occurrence T has run and the
\* user wrote no log entry for the timestamp T itself, the log holds a
\* 'missed' row for T, whatever the user logged for other minutes, and the
\* statistics of the day count that row and every row the user wrote.
C35_OnlyExactLogSuppresses ==
    \A e \in StoredEntries(FireUser) :
        LET t == PrevOccurrence(e, now)
            stats == get_workout_stats(logs, FireUser, t, t + MinutesPerDay)
        IN  (/\ Allowed(FireUser, e, t)
             /\ SweepWritten(FireUser, e, t)
             /\ ~WritesFor(FireUser, t))
                => /\ \A r \in LogRows(logs, FireUser, isoformat(t)) : r.status = "missed"
                   /\ Cardinality(LogRows(logs, FireUser, isoformat(t))) = 1
                   /\ stats.missed
                          = 1 + Cardinality({r \in logs : /\ r.date # isoformat(t)
                                                          /\ r.status = "missed"})
                   /\ stats.done = Cardinality({r \in logs : r.status = "done"})

\* 'done' logged LogLag minutes after the workout, and the missed check has run
C35_Witness ==
    \E e \in StoredEntries(FireUser) :
        LET t == PrevOccurrence(e, now)
            stats == get_workout_stats(logs, FireUser, t, t + MinutesPerDay)
        IN  /\ now = t + MissedDelay
            /\ tasks = {}
            /\ \E a \in answered : /\ a.kind = "log" /\ a.status = "done"
                                    /\ a.date = isoformat(t + LogLag)
            /\ ~WritesFor(FireUser, t)
            /\ \E m \in sent : m.kind = "missed" /\ m.workout_at = t
            /\ stats.done = 1 /\ stats.missed = 1


-----------------------------------------------------------------------------
(* Properties of the score of a report *)

\* C36: the score of a report is between 0 and 100 percent, and the 'done'
\* entries counted in its range are no more than the occurrences
\* count_scheduled_workouts returns for that range
C36_ScoreIsPercentage ==
    LET report == show_report(FireUser, now)
    IN  /\ report.done <= report.scheduled
        /\ report.score \in 0..10000

-----------------------------------------------------------------------------
(* Properties of the paywall *)

\* the day of a date text YYYY-MM-DD
DateDay(text) ==
    DayOf(fromisoformat(text \o <<"T", "0", "0", ":", "0", "0", ":", "0", "0">>
                             \o UtcOffset))

\* the user is no admin, the day of t is after the fifth day after the day of
\* the creation, and no subscription ends on the day of t or later
NoAccessByDates(t) ==
    LET user == calc.user[1]
    IN  /\ calc.tg_id \notin calc.admin_ids
        /\ DayOf(t) > DayOf(fromisoformat(user.created_at)) + TRIAL_DAYS
        /\ \/ user.subscription_ends_at = <<>>
           \/ DateDay(user.subscription_ends_at) < DayOf(t)

-----------------------------------------------------------------------------
(* Properties of the payments *)

\* the days of a billing period
PeriodDays == 30

\* C38: two payments process_recurring_payments created for the recurring
\* subscription of the user are at least 30 days apart, whatever status the
\* gateway returned for them
C38_OneChargePerPeriod ==
    calc.op = "billing" =>
        \A p \in calc.payments, q \in calc.payments :
            (p.by_job /\ q.by_job /\ p.payment_id < q.payment_id)
                => q.created >= p.created + PeriodDays

\* C39: once a payment of the user is stored as succeeded, found by
\* check_pending_payments or created as succeeded by
\* process_recurring_payments, subscription_ends_at is at least 30 days after
\* the day of the success, and has_access holds on each of these days
C39_SuccessGivesThirtyDays ==
    calc.op = "billing" =>
        \A p \in calc.payments : p.found # <<>> =>
            /\ calc.subscription_ends_at # <<>>
            /\ DateDay(calc.subscription_ends_at) >= p.found[1] + PeriodDays
            /\ DayOf(now) <= p.found[1] + PeriodDays
                  => has_access(FireUser,
                                <<UserRow(calc.created_at, calc.subscription_ends_at)>>,
                                {}, now)

=============================================================================
